---- MODULE Spec2Model ----
(***************************************************************************)
(* Model of the middleware package of GoWebUtilities: the Middleware type, *)
(* CreateStack, the logging middleware with its wrappedWriter, and the     *)
(* instrumented recordingMiddleware used to observe execution order.       *)
(*                                                                         *)
(* A handler is a chain <<u1, ..., un, base>>: u1 is the outermost         *)
(* wrapper, each ui is the closure a middleware returned for the handler   *)
(* that follows it ("next"), and the last element is the base handler.     *)
(* Serving a request walks the chain inwards (each wrapper's code before   *)
(* next.ServeHTTP), runs the base handler, and walks outwards again (each  *)
(* wrapper's code after next.ServeHTTP). A panic unwinds the same frames.  *)
(***************************************************************************)
EXTENDS Integers, Sequences, FiniteSets, TLC

\* ---------------------------------------------------------------- bounds
MaxUnits == 3       \* most wrappers one composition produces
MaxCalls == 3       \* response calls one handler run makes (one request)
MaxCallsConc == 2   \* the same, per request, when two requests interleave
MaxDuration == 1    \* largest elapsed time reported by time.Since

\* ------------------------------------------------------------- constants
StatusOK == 200

Requests == {1, 2}
Names == {"A", "B", "C"}
StatusCodes == {StatusOK, 404, 500}
Chunks == {"x", "y"}
Methods == {"GET", "POST"}
Paths == {"/", "/test"}
PanicValues == {"test panic", "boom"}

\* ------------------------------------------------------ middleware values
\* A Middleware value: what the constructor closed over.
Middleware(kind, name, xs) == [kind |-> kind, name |-> name, xs |-> xs]

recordingMiddleware(name) == Middleware("rec", name, <<>>)

NewLoggingMiddleware == Middleware("log", "", <<>>)

\* The value CreateStack(xs...) returns: a closure over xs.
StackOf(xs) == Middleware("stack", "", xs)

\* The base handler handed to the outermost middleware.
BaseHandler == Middleware("base", "handler", <<>>)

\* ------------------------------------------------------------ composition
RECURSIVE ApplyMiddleware(_, _)
RECURSIVE CreateStackLoop(_, _, _)
RECURSIVE CreateStack(_, _)
RECURSIVE CreateStackForwardLoop(_, _, _)

\* Variant: the loop runs from the first unit to the last.
CreateStackForwardLoop(xs, i, next) ==
    IF i <= Len(xs)
    THEN CreateStackForwardLoop(xs, i + 1, ApplyMiddleware(xs[i], next))
    ELSE next

CreateStackForward(xs, next) == CreateStackForwardLoop(xs, 1, next)

\* Variant: the loop condition is i > 0, so xs[0] is never applied
\* (index 1 here: Go's xs[i] is xs[i + 1] of the sequence).
CreateStackSkipFirst(xs, next) ==
    IF Len(xs) = 0 THEN next
    ELSE CreateStackLoop(SubSeq(xs, 2, Len(xs)), Len(xs) - 1, next)

\* Variant: an empty argument list yields a nil handler.
CreateStackNilOnEmpty(xs, next) ==
    IF Len(xs) = 0 THEN <<>> ELSE CreateStackLoop(xs, Len(xs), next)

\* The loop of CreateStack's closure, i counting down; the sequence is
\* 1-based, so Go's condition i >= 0 is i >= 1.
CreateStackLoop(xs, i, next) ==
    IF i >= 1
    THEN CreateStackLoop(xs, i - 1, ApplyMiddleware(xs[i], next))
    ELSE next

\* CreateStack(xs...)(next): the handler the composed middleware returns.
CreateStack(xs, next) == CreateStackLoop(xs, Len(xs), next)

\* x(next): a composed stack runs its closure, any other middleware returns
\* a new handler that holds next.
ApplyMiddleware(x, next) ==
    IF x.kind = "stack" THEN CreateStack(x.xs, next) ELSE <<x>> \o next

\* ------------------------------------------------------------------ state
VARIABLES
    mw,          \* the middleware under test
    h,           \* mw(handler): the handler chain that serves requests
    applied,     \* whether mw has been applied to the base handler
    pc,          \* per request: where its goroutine is
    depth,       \* per request: index in h of the frame that is executing
    order,       \* per request: the recorder of the instrumented units
    invoked,     \* per request: how often the base handler was entered
    calls,       \* per request: the calls the base handler made on its w
    sinkCalls,   \* per request: the calls that reached the underlying writer
    statusCode,  \* per wrappedWriter: its statusCode field
    log,         \* the records handed to the logger, in order
    method,      \* per request: r.Method
    path,        \* per request: r.URL.Path
    panicVal,    \* per request: the panic value in flight or caught
    raised       \* per request: the value the base handler panicked with

\* The request body and the response header of each request.
VARIABLES
    bodySize,    \* per request: the number of bytes of the request body
    body,        \* per request: the readers wrapped around r.Body, outermost last
    consumed,    \* per request: bytes taken from the underlying body so far
    reads,       \* per request: the results of the handler's reads of r.Body
    contentType, \* per request: the values of the response's Content-Type header
    headerSets   \* per request: the values the handler itself assigned to it

bodyVars == <<bodySize, body, consumed, reads>>

headerVars == <<contentType, headerSets>>

\* The server started by Run.
VARIABLES
    cfgResult,   \* what parsing the environment gives: "ok" or the failure
    portBusy,    \* whether the configured address is already in use
    runPc,       \* where Run is
    runErr,      \* the error Run returned
    ctxDone,     \* whether the context derived by signal.NotifyContext is done
    cancels,     \* how often the caller cancelled the context it passed
    signals,     \* the signals the process received
    killed,      \* whether a signal terminated the process
    lsPc,        \* the goroutine that calls ListenAndServe
    sdPc,        \* the goroutine that waits for ctx.Done and calls Shutdown
    wg,          \* the WaitGroup counter
    inShutdown,  \* whether Shutdown has closed the server's listeners
    conn,        \* per request: the state of its handler on the server
    elapsed,     \* seconds since the shutdown context was created
    stderr,      \* the messages written to os.Stderr
    draining     \* the requests whose handlers ran when the context became done

runVars == <<cfgResult, portBusy, runPc, runErr, ctxDone, cancels, signals,
             killed, lsPc, sdPc, wg, inShutdown, conn, elapsed, stderr,
             draining>>

\* What the handler did to its ResponseWriter and what reached the sink.
VARIABLES
    ops,         \* per request: the handler's header assignments and calls
    sinkOps,     \* per request: the same as they reached the underlying writer
    sentType     \* per request: the Content-Type values when the header was written

respVars == <<ops, sinkOps, sentType>>

\* The request on its way to the handler.
VARIABLES
    reqHeader,   \* per request: the header of the request the caller made
    reqCtx,      \* per request: the values in the context of that request
    req,         \* per request: the request a frame hands to the next one
    seen         \* per request: the request the base handler received

reqVars == <<reqHeader, reqCtx, req, seen>>

\* A stack composed from a slice the caller keeps.
VARIABLES
    backing,     \* the elements of the caller's slice
    shared,      \* whether the closure's xs is that slice or a fresh one
    composed,    \* the units when CreateStack returned
    nestings     \* the handlers the stack has built, in the order of the calls

sliceVars == <<backing, shared, composed, nestings>>

\* The environment, the process default logger and the callers of
\* ParseConfig, SetDefaultLogger and NewServerWithConfig.
VARIABLES
    environ,        \* the process environment: variable name -> value
    parseResult,    \* <<>>, or what the last ParseConfig[ServerConfig]() returned
    defaultLogger,  \* what slog.Default() returns
    loggerCalls,    \* the configurations installed as default logger, in order
    callPc,         \* where each caller of NewServerWithConfig is
    callHandler,    \* the handler each caller passed
    callCfg,        \* the cfg local of each caller
    callLogger,     \* the logger local of SetDefaultLogger in each caller
    callResult,     \* what each caller's NewServerWithConfig returned
    usedLogger      \* the logger each caller's "created server" record went to

cfgVars == <<environ, parseResult, defaultLogger, loggerCalls, callPc,
             callHandler, callCfg, callLogger, callResult, usedLogger>>

restVars == <<sliceVars, cfgVars>>

extVars == <<respVars, reqVars, restVars>>

vars == <<mw, h, applied, pc, depth, order, invoked, calls, sinkCalls,
          statusCode, log, method, path, panicVal, raised,
          bodyVars, headerVars, runVars, extVars>>

NoPanic == "none"

BoundedSeq(S, n) == UNION {[1..k -> S] : k \in 0..n}

\* A call on a response writer.
Call(op, code, data) == [op |-> op, code |-> code, data |-> data]

\* --------------------------------------------------------- wrappedWriter
\* The wrappedWriter object a logging frame uses: allocated by the
\* invocation that serves request r, in the frame at index d.
WrappedShared(r, d) == [req |-> 1, layer |-> d]

WrappedId(r, d) == [req |-> r, layer |-> d]

\* wrappedWriter.WriteHeader: the new value of statusCode.
WrappedWriteHeader(sc, c) == c

WrappedWriteNoDefault(sc) == sc

WrappedWriteAlwaysOK(sc) == StatusOK

\* wrappedWriter.Write: the new value of statusCode.
WrappedWrite(sc) == IF sc = 0 THEN StatusOK ELSE sc

FinalStatusRaw(sc) == sc

\* The status NewLoggingMiddleware reports after next.ServeHTTP returned.
FinalStatus(sc) == IF sc = 0 THEN StatusOK ELSE sc

\* The frames of h that are logging middleware: the base handler's w is the
\* wrappedWriter of the innermost, which forwards to the next one outwards.
LogLayers == {d \in 1..Len(h) : h[d].kind = "log"}

Writers(r) == {WrappedId(r, d) : d \in LogLayers}

\* The underlying http.ResponseWriter (httptest.ResponseRecorder in the
\* tests), as far as its callers here observe it: the status is the one of
\* the first call, 200 when that call is a Write or when nothing was called.
RecorderCode(cs) ==
    IF cs = <<>> THEN StatusOK
    ELSE IF cs[1].op = "WriteHeader" THEN cs[1].code ELSE StatusOK

IsWrite(c) == c.op = "Write"

RecorderBody(cs) == SelectSeq(cs, IsWrite)

\* ------------------------------------------------------------ log records
DebugRecord(r) ==
    [req |-> r, level |-> "DEBUG", msg |-> "handling request",
     attrs |-> [method |-> method[r], path |-> path[r]]]

InfoRecord(r, sc, d) ==
    [req |-> r, level |-> "INFO", msg |-> "request complete",
     attrs |-> [method |-> method[r], path |-> path[r],
                status |-> sc, duration |-> d]]

\* ----------------------------------------------------------- control flow
\* The frame at index d + 1 returned normally: its caller, frame d, goes on
\* after its call of next.ServeHTTP; frame 0 is whoever called h.ServeHTTP.
ReturnTo(r, d) ==
    /\ pc' = [pc EXCEPT ![r] = IF d = 0 THEN "done" ELSE "ret"]
    /\ depth' = [depth EXCEPT ![r] = d]

\* A panic leaves the frame at index d + 1 and reaches frame d.
UnwindTo(r, d) ==
    /\ pc' = [pc EXCEPT ![r] = IF d = 0 THEN "panicked" ELSE "panic"]
    /\ depth' = [depth EXCEPT ![r] = d]

\* A request record: what a frame passes to next.ServeHTTP besides the body.
Request(m, p, hd, cx) == [method |-> m, path |-> p, header |-> hd, ctx |-> cx]

NoRequest == Request("", "", <<>>, <<>>)

\* The request of r as the caller made it.
Origin(r) == Request(method[r], path[r], reqHeader[r], reqCtx[r])

\* mw(handler): the middleware under test is applied to the base handler.
Wrap ==
    /\ ~applied
    /\ applied' = TRUE
    /\ h' = ApplyMiddleware(mw, <<BaseHandler>>)
    /\ UNCHANGED <<mw, pc, depth, order, invoked, calls, sinkCalls,
                   statusCode, log, method, path, panicVal, raised,
                   bodyVars, headerVars, runVars, extVars>>

\* h.ServeHTTP(w, req) is called for request r.
Serve(r) ==
    /\ applied
    /\ Len(h) > 0
    /\ pc[r] = "idle"
    /\ pc' = [pc EXCEPT ![r] = "call"]
    /\ depth' = [depth EXCEPT ![r] = 1]
    /\ req' = [req EXCEPT ![r] = Origin(r)]
    /\ UNCHANGED <<mw, h, applied, order, invoked, calls, sinkCalls,
                   statusCode, log, method, path, panicVal, raised,
                   bodyVars, headerVars, runVars,
                   respVars, reqHeader, reqCtx, seen, restVars>>

\* ---------------------------------------------------- recordingMiddleware
RecordingBefore(r) ==
    /\ pc[r] = "call"
    /\ h[depth[r]].kind = "rec"
    /\ order' = [order EXCEPT ![r] = Append(@, h[depth[r]].name \o ":before")]
    /\ depth' = [depth EXCEPT ![r] = @ + 1]
    /\ UNCHANGED <<mw, h, applied, pc, invoked, calls, sinkCalls,
                   statusCode, log, method, path, panicVal, raised,
                   bodyVars, headerVars, runVars, extVars>>

RecordingAfter(r) ==
    /\ pc[r] = "ret"
    /\ h[depth[r]].kind = "rec"
    /\ order' = [order EXCEPT ![r] = Append(@, h[depth[r]].name \o ":after")]
    /\ ReturnTo(r, depth[r] - 1)
    /\ UNCHANGED <<mw, h, applied, invoked, calls, sinkCalls,
                   statusCode, log, method, path, panicVal, raised,
                   bodyVars, headerVars, runVars, extVars>>

\* ---------------------------------------------- logging middleware frames
\* Variant: the completion record is written before the handler is called.
LoggingBeforeEagerInfo(r) ==
    /\ pc[r] = "call"
    /\ h[depth[r]].kind = "log"
    /\ statusCode' = (WrappedId(r, depth[r]) :> 0) @@ statusCode
    /\ log' = log \o <<DebugRecord(r), InfoRecord(r, FinalStatus(0), 0)>>
    /\ depth' = [depth EXCEPT ![r] = @ + 1]
    /\ UNCHANGED <<mw, h, applied, pc, order, invoked, calls, sinkCalls,
                   method, path, panicVal, raised,
                   bodyVars, headerVars, runVars, extVars>>

\* Variant: the logging middleware hands on the request with a fresh
\* context.
LoggingBeforeNewContext(r) ==
    /\ pc[r] = "call"
    /\ h[depth[r]].kind = "log"
    /\ statusCode' = (WrappedId(r, depth[r]) :> 0) @@ statusCode
    /\ log' = Append(log, DebugRecord(r))
    /\ depth' = [depth EXCEPT ![r] = @ + 1]
    /\ req' = [req EXCEPT ![r].ctx = <<>>]
    /\ UNCHANGED <<mw, h, applied, pc, order, invoked, calls, sinkCalls,
                   method, path, panicVal, raised,
                   bodyVars, headerVars, runVars,
                   respVars, reqHeader, reqCtx, seen, restVars>>

\* Up to the call of next.ServeHTTP: a fresh wrappedWriter with statusCode
\* 0, then the debug record.
LoggingBefore(r) ==
    /\ pc[r] = "call"
    /\ h[depth[r]].kind = "log"
    /\ statusCode' = (WrappedId(r, depth[r]) :> 0) @@ statusCode
    /\ log' = Append(log, DebugRecord(r))
    /\ depth' = [depth EXCEPT ![r] = @ + 1]
    /\ UNCHANGED <<mw, h, applied, pc, order, invoked, calls, sinkCalls,
                   method, path, panicVal, raised,
                   bodyVars, headerVars, runVars, extVars>>

\* After next.ServeHTTP returned: the info record with the status read from
\* the wrappedWriter and the elapsed time d.
LoggingAfter(r, d) ==
    /\ pc[r] = "ret"
    /\ h[depth[r]].kind = "log"
    /\ log' = Append(log,
                InfoRecord(r, FinalStatus(statusCode[WrappedId(r, depth[r])]), d))
    /\ ReturnTo(r, depth[r] - 1)
    /\ UNCHANGED <<mw, h, applied, order, invoked, calls, sinkCalls,
                   statusCode, method, path, panicVal, raised,
                   bodyVars, headerVars, runVars, extVars>>

\* Variant: the completion record is written by a deferred function.
LoggingUnwindDeferred(r) ==
    /\ pc[r] = "panic"
    /\ h[depth[r]].kind = "log"
    /\ log' = Append(log,
                InfoRecord(r, FinalStatus(statusCode[WrappedId(r, depth[r])]), 0))
    /\ UnwindTo(r, depth[r] - 1)
    /\ UNCHANGED <<mw, h, applied, order, invoked, calls, sinkCalls,
                   statusCode, method, path, panicVal, raised,
                   bodyVars, headerVars, runVars, extVars>>

\* A panic of next.ServeHTTP passes through the logging frame: the frame
\* has no deferred function, so nothing after the call runs.
LoggingUnwind(r) ==
    /\ pc[r] = "panic"
    /\ h[depth[r]].kind = "log"
    /\ UnwindTo(r, depth[r] - 1)
    /\ UNCHANGED <<mw, h, applied, order, invoked, calls, sinkCalls,
                   statusCode, log, method, path, panicVal, raised,
                   bodyVars, headerVars, runVars, extVars>>

\* ------------------------------------------------------- the base handler
HandlerEnter(r) ==
    /\ pc[r] = "call"
    /\ h[depth[r]].kind = "base"
    /\ order' = [order EXCEPT ![r] = Append(@, h[depth[r]].name)]
    /\ invoked' = [invoked EXCEPT ![r] = @ + 1]
    /\ pc' = [pc EXCEPT ![r] = "run"]
    /\ seen' = [seen EXCEPT ![r] = req[r]]
    /\ UNCHANGED <<mw, h, applied, depth, calls, sinkCalls,
                   statusCode, log, method, path, panicVal, raised,
                   bodyVars, headerVars, runVars,
                   respVars, reqHeader, reqCtx, req, restVars>>

\* An entry of the record of what was done to a ResponseWriter: a header
\* assignment, a WriteHeader or a Write with the values Write returned.
Op(op, code, data, n, err) ==
    [op |-> op, code |-> code, data |-> data, n |-> n, err |-> err]

OpHeader(v) == Op("Header", 0, v, 0, "nil")

OpWriteHeader(c) == Op("WriteHeader", c, "", 0, "nil")

OpWrite(b, res) == Op("Write", 0, b, res.n, res.err)

\* The underlying writer's Write(b): the recorder takes all of b.
SinkWrite(b) == [n |-> Len(b), err |-> "nil"]

\* Variant: wrappedWriter.Write swallows what the underlying Write returned.
WrappedWriteReturnDropped(res) == [n |-> 0, err |-> "nil"]

\* wrappedWriter.Write returns what w.ResponseWriter.Write(b) returned.
WrappedWriteReturn(res) == res

\* The handler calls w.WriteHeader(c): every wrappedWriter between the
\* handler and the underlying writer stores c and forwards the call.
HandlerWriteHeader(r, c, bound) ==
    /\ pc[r] = "run"
    /\ Len(calls[r]) < bound
    /\ calls' = [calls EXCEPT ![r] = Append(@, Call("WriteHeader", c, ""))]
    /\ statusCode' = [id \in DOMAIN statusCode |->
                        IF id \in Writers(r)
                        THEN WrappedWriteHeader(statusCode[id], c)
                        ELSE statusCode[id]]
    /\ sinkCalls' = [sinkCalls EXCEPT ![r] = Append(@, Call("WriteHeader", c, ""))]
    /\ ops' = [ops EXCEPT ![r] = Append(@, OpWriteHeader(c))]
    /\ sinkOps' = [sinkOps EXCEPT ![r] = Append(@, OpWriteHeader(c))]
    /\ sentType' = [sentType EXCEPT ![r] =
                      IF sinkCalls[r] = <<>> THEN contentType[r] ELSE @]
    /\ UNCHANGED <<mw, h, applied, pc, depth, order, invoked,
                   log, method, path, panicVal, raised,
                   bodyVars, headerVars, runVars, reqVars, restVars>>

\* The value w.Header().Get(key) returns for a key holding the values vs:
\* the first value, and "" when the key is absent.
HeaderGet(vs) == IF vs = <<>> THEN "" ELSE vs[1]

\* http.DetectContentType of the chunks the handlers write.
SniffedType == "text/plain; charset=utf-8"

\* The recorder's first Write, when no WriteHeader came before it and the
\* Content-Type key is absent, sets the key to the sniffed type; a key that
\* is present, even with the value "", is left alone.
RecorderSniff(cs, ct) == IF cs = <<>> /\ ct = <<>> THEN <<SniffedType>> ELSE ct

\* The handler calls w.Write(b).
HandlerWrite(r, b, bound) ==
    /\ pc[r] = "run"
    /\ Len(calls[r]) < bound
    /\ calls' = [calls EXCEPT ![r] = Append(@, Call("Write", 0, b))]
    /\ statusCode' = [id \in DOMAIN statusCode |->
                        IF id \in Writers(r)
                        THEN WrappedWrite(statusCode[id])
                        ELSE statusCode[id]]
    /\ sinkCalls' = [sinkCalls EXCEPT ![r] = Append(@, Call("Write", 0, b))]
    /\ contentType' = [contentType EXCEPT ![r] = RecorderSniff(sinkCalls[r], @)]
    /\ ops' = [ops EXCEPT ![r] =
                 Append(@, OpWrite(b, IF Writers(r) = {} THEN SinkWrite(b)
                                      ELSE WrappedWriteReturn(SinkWrite(b))))]
    /\ sinkOps' = [sinkOps EXCEPT ![r] = Append(@, OpWrite(b, SinkWrite(b)))]
    /\ sentType' = [sentType EXCEPT ![r] =
                      IF sinkCalls[r] = <<>>
                      THEN RecorderSniff(sinkCalls[r], contentType[r]) ELSE @]
    /\ UNCHANGED <<mw, h, applied, pc, depth, order, invoked,
                   log, method, path, panicVal, raised,
                   bodyVars, headerSets, runVars, reqVars, restVars>>

HandlerPanic(r, v) ==
    /\ pc[r] = "run"
    /\ raised' = [raised EXCEPT ![r] = v]
    /\ panicVal' = [panicVal EXCEPT ![r] = v]
    /\ UnwindTo(r, depth[r] - 1)
    /\ UNCHANGED <<mw, h, applied, order, invoked, calls, sinkCalls,
                   statusCode, log, method, path,
                   bodyVars, headerVars, runVars, extVars>>

HandlerReturn(r) ==
    /\ pc[r] = "run"
    /\ ReturnTo(r, depth[r] - 1)
    /\ UNCHANGED <<mw, h, applied, order, invoked, calls, sinkCalls,
                   statusCode, log, method, path, panicVal, raised,
                   bodyVars, headerVars, runVars, extVars>>

\* --------------------------------------------------------- specifications
InitRequests(mws, active, methods, paths) ==
    /\ mw \in mws
    /\ h = <<>>
    /\ applied = FALSE
    /\ pc = [r \in Requests |-> IF r \in active THEN "idle" ELSE "off"]
    /\ depth = [r \in Requests |-> 0]
    /\ order = [r \in Requests |-> <<>>]
    /\ invoked = [r \in Requests |-> 0]
    /\ calls = [r \in Requests |-> <<>>]
    /\ sinkCalls = [r \in Requests |-> <<>>]
    /\ statusCode = [id \in {} |-> 0]
    /\ log = <<>>
    /\ method \in [Requests -> methods]
    /\ path \in [Requests -> paths]
    /\ \A r \in Requests \ active :
          /\ method[r] = CHOOSE m \in methods : TRUE
          /\ path[r] = CHOOSE p \in paths : TRUE
    /\ panicVal = [r \in Requests |-> NoPanic]
    /\ raised = [r \in Requests |-> NoPanic]

\* Request bodies of the given sizes, nothing read yet.
InitBody(sizes, active) ==
    /\ bodySize \in [Requests -> sizes]
    /\ \A r \in Requests \ active : bodySize[r] = CHOOSE n \in sizes : TRUE
    /\ body = [r \in Requests |-> <<>>]
    /\ consumed = [r \in Requests |-> 0]
    /\ reads = [r \in Requests |-> <<>>]

\* Responses without a Content-Type header.
InitHeader ==
    /\ contentType = [r \in Requests |-> <<>>]
    /\ headerSets = [r \in Requests |-> <<>>]

\* Nothing written to any response yet.
InitResp ==
    /\ ops = [r \in Requests |-> <<>>]
    /\ sinkOps = [r \in Requests |-> <<>>]
    /\ sentType = [r \in Requests |-> <<>>]

\* Requests with headers and context values from the given sets.
InitReq(hds, cxs, active) ==
    /\ reqHeader \in [Requests -> hds]
    /\ reqCtx \in [Requests -> cxs]
    /\ \A r \in Requests \ active :
          /\ reqHeader[r] = CHOOSE x \in hds : TRUE
          /\ reqCtx[r] = CHOOSE x \in cxs : TRUE
    /\ req = [r \in Requests |-> NoRequest]
    /\ seen = [r \in Requests |-> NoRequest]

\* The environment variables ServerConfig reads.
EnvKeys == {"ENVIRONMENT", "VERBOSE", "PORT", "READ_TIMEOUT", "WRITE_TIMEOUT",
            "IDLE_TIMEOUT"}

\* envDefault of each field of ServerConfig.
EnvDefault ==
    [k \in EnvKeys |->
        CASE k = "ENVIRONMENT"   -> "local"
          [] k = "VERBOSE"       -> "false"
          [] k = "PORT"          -> "8080"
          [] k = "READ_TIMEOUT"  -> "15"
          [] k = "WRITE_TIMEOUT" -> "15"
          [] k = "IDLE_TIMEOUT"  -> "60"]

\* No variable is set: the value "" stands for a variable that is unset or
\* set to the empty string, which the parser treats alike.
EmptyEnviron == [k \in EnvKeys |-> ""]

\* var zero ServerConfig
ZeroConfig ==
    [Environment |-> "", VerboseMode |-> FALSE, Port |-> 0, ReadTimeout |-> 0,
     WriteTimeout |-> 0, IdleTimeout |-> 0]

\* The goroutines that call NewServerWithConfig.
Callers == {1, 2}

NilServer == <<>>
NilLogger == <<>>

\* The logger the program starts with, before any slog.SetDefault.
GoDefaultLogger == [id |-> <<0, 0>>, level |-> "INFO", format |-> "default"]

\* Nobody has called ParseConfig, SetDefaultLogger or NewServerWithConfig.
InitCalls ==
    /\ parseResult = <<>>
    /\ defaultLogger = GoDefaultLogger
    /\ loggerCalls = <<>>
    /\ callPc = [c \in Callers |-> "idle"]
    /\ callHandler = [c \in Callers |-> BaseHandler]
    /\ callCfg = [c \in Callers |-> ZeroConfig]
    /\ callLogger = [c \in Callers |-> NilLogger]
    /\ callResult = [c \in Callers |-> <<>>]
    /\ usedLogger = [c \in Callers |-> NilLogger]

InitConfigIdle ==
    /\ environ = EmptyEnviron
    /\ InitCalls

\* No stack composed from a slice.
InitSliceIdle ==
    /\ backing = <<>>
    /\ shared = FALSE
    /\ composed = <<>>
    /\ nestings = <<>>

InitRest == InitSliceIdle /\ InitConfigIdle

InitExt ==
    /\ InitResp
    /\ InitReq({<<>>}, {<<>>}, {})
    /\ InitRest

\* Run has not been called.
InitRunIdle ==
    /\ cfgResult = "ok"
    /\ portBusy = FALSE
    /\ runPc = "idle"
    /\ runErr = <<>>
    /\ ctxDone = FALSE
    /\ cancels = 0
    /\ signals = {}
    /\ killed = FALSE
    /\ lsPc = "none"
    /\ sdPc = "none"
    /\ wg = 0
    /\ inShutdown = FALSE
    /\ conn = [r \in Requests |-> "none"]
    /\ elapsed = 0
    /\ stderr = <<>>
    /\ draining = {}

InitWith(mws, active, methods, paths) ==
    /\ InitRequests(mws, active, methods, paths)
    /\ InitBody({0}, active)
    /\ InitHeader
    /\ InitExt
    /\ InitRunIdle

\* One request through the logging middleware, any handler behaviour.
Init == InitWith({NewLoggingMiddleware}, {1}, Methods, Paths)

LoggingStep(r, bound, codes, chunks, durations, values) ==
    \/ Serve(r)
    \/ LoggingBefore(r)
    \/ \E d \in durations : LoggingAfter(r, d)
    \/ LoggingUnwind(r)
    \/ HandlerEnter(r)
    \/ \E c \in codes : HandlerWriteHeader(r, c, bound)
    \/ \E b \in chunks : HandlerWrite(r, b, bound)
    \/ \E v \in values : HandlerPanic(r, v)
    \/ HandlerReturn(r)

Next ==
    \/ Wrap
    \/ \E r \in Requests :
          LoggingStep(r, MaxCalls, StatusCodes, Chunks, 0..MaxDuration, PanicValues)

Spec == Init /\ [][Next]_vars

\* Two requests served concurrently by the same logging middleware.
InitConc == InitWith({NewLoggingMiddleware}, Requests, Methods, {"/"})

NextConc ==
    \/ Wrap
    \/ \E r \in Requests :
          LoggingStep(r, MaxCallsConc, {StatusOK, 404}, {"x"}, {0}, {"test panic"})

SpecConc == InitConc /\ [][NextConc]_vars

\* Stacks of recording middleware, flat or with a composed stack as a unit.
RecordingUnits == {recordingMiddleware(n) : n \in Names}

\* The units that wrap w handlers: a recording middleware or a composed
\* stack of at most one unit for w = 1, a composed stack of w recording
\* middleware for w > 1.
UnitsOfWeight(w) ==
    IF w = 1
    THEN RecordingUnits
         \cup {StackOf(ys) : ys \in BoundedSeq(RecordingUnits, 1)}
    ELSE {StackOf(ys) : ys \in [1..w -> RecordingUnits]}

RECURSIVE StackArgs(_)
\* The argument lists of CreateStack whose units have a total weight of at
\* most n.
StackArgs(n) ==
    {<<>>} \cup
    UNION {{<<u>> \o rest : u \in UnitsOfWeight(w), rest \in StackArgs(n - w)} :
             w \in 1..n}

InitStack ==
    InitWith({StackOf(xs) : xs \in StackArgs(MaxUnits)}, {1}, {"GET"}, {"/"})

NextStack ==
    \/ Wrap
    \/ \E r \in Requests :
          \/ Serve(r)
          \/ RecordingBefore(r)
          \/ RecordingAfter(r)
          \/ HandlerEnter(r)
          \/ HandlerWriteHeader(r, StatusOK, 1)
          \/ HandlerReturn(r)

SpecStack == InitStack /\ [][NextStack]_vars

\* ------------------------------------------------------ request body limit
MaxReads == 3       \* reads of the body one handler run makes
MaxLimitCalls == 2  \* response calls one handler run makes behind the limiter

DefaultMaxBytes == 1048576

StatusRequestEntityTooLarge == 413

NoErr == "nil"
EOF == "EOF"
TooLarge == "http: request body too large"

Min(a, b) == IF a < b THEN a ELSE b

\* Variant: the limit handed to the reader is one byte short.
NewMaxBytesReaderOffByOne(maxBytes) ==
    [kind |-> "limit", name |-> "", xs |-> <<>>,
     maxBytes |-> (IF maxBytes = 0 THEN DefaultMaxBytes ELSE maxBytes) - 1]

\* Variant: a limit of 0 is kept as it is.
NewMaxBytesReaderNoDefault(maxBytes) ==
    [kind |-> "limit", name |-> "", xs |-> <<>>, maxBytes |-> maxBytes]

\* Variant: the limit handed to the reader is one byte too large.
NewMaxBytesReaderPlusOne(maxBytes) ==
    [kind |-> "limit", name |-> "", xs |-> <<>>,
     maxBytes |-> (IF maxBytes = 0 THEN DefaultMaxBytes ELSE maxBytes) + 1]

\* NewMaxBytesReader(maxBytes): the middleware closes over maxBytes, with 0
\* replaced by the default of 1MB.
NewMaxBytesReader(maxBytes) ==
    [kind |-> "limit", name |-> "", xs |-> <<>>,
     maxBytes |-> IF maxBytes = 0 THEN DefaultMaxBytes ELSE maxBytes]

RECURSIVE BodyRead(_, _, _, _)
\* Read(p) with len(p) = k >= 1 on the reader at level i of the readers rs,
\* level 0 being the underlying body with avail bytes left. A reader made by
\* http.MaxBytesReader has n bytes left to deliver and a sticky error: it
\* asks the reader below for at most n + 1 bytes, delivers what it got when
\* that is at most n, and otherwise delivers n bytes with the error
\* "request body too large". The result is the count and error returned, the
\* readers afterwards and the bytes taken from the underlying body.
BodyRead(rs, i, k, avail) ==
    IF i = 0
    THEN LET n == Min(k, avail)
         IN  [n |-> n, err |-> IF n = 0 THEN EOF ELSE NoErr, rs |-> rs, took |-> n]
    ELSE IF rs[i].err # NoErr
    THEN [n |-> 0, err |-> rs[i].err, rs |-> rs, took |-> 0]
    ELSE LET l == rs[i]
             kk == IF k - 1 > l.n THEN l.n + 1 ELSE k
             in == BodyRead(rs, i - 1, kk, avail)
         IN  IF in.n <= l.n
             THEN [n |-> in.n, err |-> in.err, took |-> in.took,
                   rs |-> [in.rs EXCEPT ![i] = [n |-> l.n - in.n, err |-> in.err]]]
             ELSE [n |-> l.n, err |-> TooLarge, took |-> in.took,
                   rs |-> [in.rs EXCEPT ![i] = [n |-> 0, err |-> TooLarge]]]

\* Variant: the middleware reads the body itself, up to one byte past the
\* limit, before it calls the handler.
LimitBeforeEager(r) ==
    /\ pc[r] = "call"
    /\ h[depth[r]].kind = "limit"
    /\ LET got == BodyRead(Append(body[r], [n |-> h[depth[r]].maxBytes, err |-> NoErr]),
                           Len(body[r]) + 1, h[depth[r]].maxBytes + 1,
                           bodySize[r] - consumed[r])
       IN  /\ body' = [body EXCEPT ![r] = got.rs]
           /\ consumed' = [consumed EXCEPT ![r] = @ + got.took]
    /\ depth' = [depth EXCEPT ![r] = @ + 1]
    /\ UNCHANGED <<mw, h, applied, pc, order, invoked, calls, sinkCalls,
                   statusCode, log, method, path, panicVal, raised,
                   bodySize, reads, headerVars, runVars, extVars>>

\* Variant: the middleware answers 413 itself when the body is larger than
\* the limit.
LimitBeforeRejects(r) ==
    /\ pc[r] = "call"
    /\ h[depth[r]].kind = "limit"
    /\ body' = [body EXCEPT ![r] =
                  Append(@, [n |-> h[depth[r]].maxBytes, err |-> NoErr])]
    /\ sinkCalls' = [sinkCalls EXCEPT ![r] =
                       IF bodySize[r] > h[depth[r]].maxBytes
                       THEN Append(@, Call("WriteHeader", StatusRequestEntityTooLarge, ""))
                       ELSE @]
    /\ depth' = [depth EXCEPT ![r] = @ + 1]
    /\ UNCHANGED <<mw, h, applied, pc, order, invoked, calls,
                   statusCode, log, method, path, panicVal, raised,
                   bodySize, consumed, reads, headerVars, runVars, extVars>>

\* The limiter's handler: r.Body is replaced by http.MaxBytesReader(w,
\* r.Body, maxBytes), then next.ServeHTTP(w, r) is called.
LimitBefore(r) ==
    /\ pc[r] = "call"
    /\ h[depth[r]].kind = "limit"
    /\ body' = [body EXCEPT ![r] =
                  Append(@, [n |-> h[depth[r]].maxBytes, err |-> NoErr])]
    /\ depth' = [depth EXCEPT ![r] = @ + 1]
    /\ UNCHANGED <<mw, h, applied, pc, order, invoked, calls, sinkCalls,
                   statusCode, log, method, path, panicVal, raised,
                   bodySize, consumed, reads, headerVars, runVars, extVars>>

\* next.ServeHTTP returned: the limiter's handler returns too.
LimitAfter(r) ==
    /\ pc[r] = "ret"
    /\ h[depth[r]].kind = "limit"
    /\ ReturnTo(r, depth[r] - 1)
    /\ UNCHANGED <<mw, h, applied, order, invoked, calls, sinkCalls,
                   statusCode, log, method, path, panicVal, raised,
                   bodyVars, headerVars, runVars, extVars>>

\* The handler calls r.Body.Read(p) with len(p) = k.
HandlerRead(r, k, bound) ==
    /\ pc[r] = "run"
    /\ Len(reads[r]) < bound
    /\ LET got == BodyRead(body[r], Len(body[r]), k, bodySize[r] - consumed[r])
       IN  /\ reads' = [reads EXCEPT ![r] =
                          Append(@, [asked |-> k, n |-> got.n, err |-> got.err])]
           /\ body' = [body EXCEPT ![r] = got.rs]
           /\ consumed' = [consumed EXCEPT ![r] = @ + got.took]
    /\ UNCHANGED <<mw, h, applied, pc, depth, order, invoked, calls, sinkCalls,
                   statusCode, log, method, path, panicVal, raised,
                   bodySize, headerVars, runVars, extVars>>

LimitArgs == {0, 1, 2, DefaultMaxBytes}

BodySizes == {0, 1, 2, 3, DefaultMaxBytes, DefaultMaxBytes + 1}

ReadSizes == {1, 2, 512, DefaultMaxBytes}

\* One request with a body through the limiter; the handler reads the body
\* as often and as far as it likes and answers as it likes.
InitLimit ==
    /\ InitRequests({NewMaxBytesReader(m) : m \in LimitArgs}, {1}, {"POST"}, {"/"})
    /\ InitBody(BodySizes, {1})
    /\ InitHeader
    /\ InitExt
    /\ InitRunIdle

NextLimit ==
    \/ Wrap
    \/ \E r \in Requests :
          \/ Serve(r)
          \/ LimitBefore(r)
          \/ LimitAfter(r)
          \/ HandlerEnter(r)
          \/ \E k \in ReadSizes : HandlerRead(r, k, MaxReads)
          \/ \E c \in {StatusOK, StatusRequestEntityTooLarge} :
                HandlerWriteHeader(r, c, MaxLimitCalls)
          \/ HandlerWrite(r, "x", MaxLimitCalls)
          \/ HandlerReturn(r)

SpecLimit == InitLimit /\ [][NextLimit]_vars

\* ------------------------------------------------------- NewSetContentType
MaxHeaderSets == 1
MaxHeaderCalls == 2

\* NewSetContentType with the empty content type leaving the header alone.
NewSetContentTypeBeforeSkipEmpty(r) ==
    /\ pc[r] = "call"
    /\ h[depth[r]].kind = "ctype"
    /\ contentType' = [contentType EXCEPT ![r] =
                         IF h[depth[r]].value = "" THEN @
                         ELSE <<h[depth[r]].value>>]
    /\ depth' = [depth EXCEPT ![r] = @ + 1]
    /\ UNCHANGED <<mw, h, applied, pc, order, invoked, calls, sinkCalls,
                   statusCode, log, method, path, panicVal, raised,
                   bodyVars, headerSets, runVars, extVars>>

\* Variant: the setter uses w.Header().Add, which appends a value.
NewSetContentTypeBeforeAdd(r) ==
    /\ pc[r] = "call"
    /\ h[depth[r]].kind = "ctype"
    /\ contentType' = [contentType EXCEPT ![r] = Append(@, h[depth[r]].value)]
    /\ depth' = [depth EXCEPT ![r] = @ + 1]
    /\ UNCHANGED <<mw, h, applied, pc, order, invoked, calls, sinkCalls,
                   statusCode, log, method, path, panicVal, raised,
                   bodyVars, headerSets, runVars, extVars>>

\* NewSetContentType(contentType): the middleware closes over contentType.
NewSetContentType(ct) ==
    [kind |-> "ctype", name |-> "", xs |-> <<>>, value |-> ct]

NewSetContentTypeJSON == NewSetContentType("application/json")

\* w.Header().Set("Content-Type", contentType) replaces whatever the key
\* held by the one value contentType, then next.ServeHTTP(w, r) is called.
NewSetContentTypeBefore(r) ==
    /\ pc[r] = "call"
    /\ h[depth[r]].kind = "ctype"
    /\ contentType' = [contentType EXCEPT ![r] = <<h[depth[r]].value>>]
    /\ depth' = [depth EXCEPT ![r] = @ + 1]
    /\ UNCHANGED <<mw, h, applied, pc, order, invoked, calls, sinkCalls,
                   statusCode, log, method, path, panicVal, raised,
                   bodyVars, headerSets, runVars, extVars>>

\* next.ServeHTTP returned: the setter's handler returns too.
NewSetContentTypeAfter(r) ==
    /\ pc[r] = "ret"
    /\ h[depth[r]].kind = "ctype"
    /\ ReturnTo(r, depth[r] - 1)
    /\ UNCHANGED <<mw, h, applied, order, invoked, calls, sinkCalls,
                   statusCode, log, method, path, panicVal, raised,
                   bodyVars, headerVars, runVars, extVars>>

\* The handler calls w.Header().Set("Content-Type", v) itself.
HandlerSetHeader(r, v, bound) ==
    /\ pc[r] = "run"
    /\ Len(headerSets[r]) < bound
    /\ headerSets' = [headerSets EXCEPT ![r] = Append(@, v)]
    /\ contentType' = [contentType EXCEPT ![r] = <<v>>]
    /\ ops' = [ops EXCEPT ![r] = Append(@, OpHeader(v))]
    /\ sinkOps' = [sinkOps EXCEPT ![r] = Append(@, OpHeader(v))]
    /\ UNCHANGED <<mw, h, applied, pc, depth, order, invoked, calls, sinkCalls,
                   statusCode, log, method, path, panicVal, raised,
                   bodyVars, runVars, sentType, reqVars, restVars>>

ContentTypes == {"", "application/json", "text/html; charset=utf-8", "text/plain"}

\* One request through a content-type setter; the handler answers as it
\* likes and may set the header itself.
InitHeaderSetter ==
    /\ InitRequests({NewSetContentType(v) : v \in ContentTypes} \cup {NewSetContentTypeJSON},
                    {1}, {"GET"}, {"/"})
    /\ InitBody({0}, {1})
    /\ InitHeader
    /\ InitExt
    /\ InitRunIdle

NextHeader ==
    \/ Wrap
    \/ \E r \in Requests :
          \/ Serve(r)
          \/ NewSetContentTypeBefore(r)
          \/ NewSetContentTypeAfter(r)
          \/ HandlerEnter(r)
          \/ \E v \in ContentTypes : HandlerSetHeader(r, v, MaxHeaderSets)
          \/ \E c \in {StatusOK} : HandlerWriteHeader(r, c, MaxHeaderCalls)
          \/ HandlerWrite(r, "x", MaxHeaderCalls)
          \/ HandlerReturn(r)

SpecHeader == InitHeaderSetter /\ [][NextHeader]_vars

\* -------------------------------------------------------------------- Run
MaxCancels == 2
ShutdownTimeout == 10

NoError == <<>>

\* fmt.Errorf(msg + ": %w", err): the message in front of the wrapped chain.
Wrapf(msg, err) == <<msg>> \o err

\* What the environment makes of ParseConfig[ServerConfig].
ConfigResults == {"ok", "parse", "validate"}

\* ParseConfig: the error of env.ParseAs or of Validate, wrapped.
ParseConfig(res) ==
    CASE res = "parse"    -> Wrapf("failed to parse config from environment", <<"env">>)
      [] res = "validate" -> Wrapf("config validation failed", <<"invalid environment">>)
      [] OTHER            -> NoError

\* NewServerWithConfig: the error it returns, NoError when it returns a server.
NewServerWithConfig(res) ==
    IF ParseConfig(res) # NoError
    THEN Wrapf("failed to create config from environment", ParseConfig(res))
    ELSE NoError

\* The context is done from now on; the handlers running at this moment
\* are the ones a graceful shutdown has to wait for.
Done ==
    /\ ctxDone' = TRUE
    /\ draining' = IF ctxDone THEN draining
                   ELSE {r \in Requests : conn[r] = "running"}

\* Run is past signal.NotifyContext and has not returned.
Registered == runPc \in {"notified", "created", "listening", "wait"}

\* Run with NewServerWithConfig's error dropped.
RunCreateServerIgnoreError ==
    /\ ~killed
    /\ runPc = "notified"
    /\ runPc' = "created"
    /\ UNCHANGED <<cfgResult, portBusy, runErr, ctxDone, cancels, signals,
                   killed, lsPc, sdPc, wg, inShutdown, conn, elapsed, stderr,
                   draining>>
    /\ UNCHANGED <<mw, h, applied, pc, depth, order, invoked, calls, sinkCalls,
                   statusCode, log, method, path, panicVal, raised,
                   bodyVars, headerVars, extVars>>

\* The shutdown goroutine returning without wg.Done().
ShutdownReturnNoDone(msgs) ==
    /\ sdPc' = "exit"
    /\ wg' = wg
    /\ stderr' = stderr \o msgs

\* httpServer.Close() in place of Shutdown: it does not wait for handlers.
ShutdownClose ==
    /\ ~killed
    /\ sdPc = "polling"
    /\ sdPc' = "exit"
    /\ wg' = wg - 1
    /\ stderr' = stderr
    /\ UNCHANGED <<cfgResult, portBusy, runPc, runErr, ctxDone, cancels,
                   signals, killed, lsPc, inShutdown, conn, elapsed, draining>>
    /\ UNCHANGED <<mw, h, applied, pc, depth, order, invoked, calls, sinkCalls,
                   statusCode, log, method, path, panicVal, raised,
                   bodyVars, headerVars, extVars>>

\* ctx, cancel := signal.NotifyContext(ctx, os.Interrupt): the signals that
\* make the derived context done instead of terminating the process.
Notified == {"SIGINT"}

\* The variables of the middleware requests, which Run does not touch.
mwVars == <<mw, h, applied, pc, depth, order, invoked, calls, sinkCalls,
            statusCode, log, method, path, panicVal, raised,
            bodyVars, headerVars, extVars>>

\* Run is called: signal.NotifyContext derives the context; defer cancel().
RunNotifyContext ==
    /\ ~killed
    /\ runPc = "idle"
    /\ runPc' = "notified"
    /\ UNCHANGED <<cfgResult, portBusy, runErr, ctxDone, cancels, signals,
                   killed, lsPc, sdPc, wg, inShutdown, conn, elapsed, stderr,
                   draining>>
    /\ UNCHANGED mwVars

\* httpServer, err := NewServerWithConfig(srv); on an error Run returns it
\* wrapped, and the deferred cancel runs.
RunCreateServer ==
    /\ ~killed
    /\ runPc = "notified"
    /\ IF NewServerWithConfig(cfgResult) # NoError
       THEN /\ runErr' = Wrapf("failed to create server with config from environment",
                               NewServerWithConfig(cfgResult))
            /\ runPc' = "returned"
            /\ Done
       ELSE /\ runPc' = "created"
            /\ UNCHANGED <<runErr, ctxDone, draining>>
    /\ UNCHANGED <<cfgResult, portBusy, cancels, signals, killed, lsPc, sdPc,
                   wg, inShutdown, conn, elapsed, stderr>>
    /\ UNCHANGED mwVars

\* go func() { ... httpServer.ListenAndServe() ... }()
RunGoListen ==
    /\ ~killed
    /\ runPc = "created"
    /\ runPc' = "listening"
    /\ lsPc' = "start"
    /\ UNCHANGED <<cfgResult, portBusy, runErr, ctxDone, cancels, signals,
                   killed, sdPc, wg, inShutdown, conn, elapsed, stderr,
                   draining>>
    /\ UNCHANGED mwVars

\* wg.Add(1); go func() { defer wg.Done(); <-ctx.Done(); ... }()
RunGoShutdown ==
    /\ ~killed
    /\ runPc = "listening"
    /\ runPc' = "wait"
    /\ wg' = wg + 1
    /\ sdPc' = "waitctx"
    /\ UNCHANGED <<cfgResult, portBusy, runErr, ctxDone, cancels, signals,
                   killed, lsPc, inShutdown, conn, elapsed, stderr, draining>>
    /\ UNCHANGED mwVars

\* Variant: Run also returns when the listening goroutine has ended.
RunReturnListenerExit ==
    /\ ~killed
    /\ runPc = "wait"
    /\ (wg = 0 \/ lsPc = "exit")
    /\ runPc' = "returned"
    /\ runErr' = NoError
    /\ Done
    /\ UNCHANGED <<cfgResult, portBusy, cancels, signals, killed, lsPc, sdPc,
                   wg, inShutdown, conn, elapsed, stderr>>
    /\ UNCHANGED mwVars

\* wg.Wait() returns when the counter is zero; return nil, and the deferred
\* cancel runs.
RunReturn ==
    /\ ~killed
    /\ runPc = "wait"
    /\ wg = 0
    /\ runPc' = "returned"
    /\ runErr' = NoError
    /\ Done
    /\ UNCHANGED <<cfgResult, portBusy, cancels, signals, killed, lsPc, sdPc,
                   wg, inShutdown, conn, elapsed, stderr>>
    /\ UNCHANGED mwVars

\* httpServer.ListenAndServe() in the first goroutine: after Shutdown it
\* returns http.ErrServerClosed at once, which is not reported; an address
\* it cannot listen on is reported on stderr; otherwise it serves.
ListenAndServe ==
    /\ ~killed
    /\ lsPc = "start"
    /\ IF inShutdown
       THEN lsPc' = "exit" /\ stderr' = stderr
       ELSE IF portBusy
            THEN lsPc' = "exit" /\ stderr' = Append(stderr, "error listening and serving")
            ELSE lsPc' = "serving" /\ stderr' = stderr
    /\ UNCHANGED <<cfgResult, portBusy, runPc, runErr, ctxDone, cancels,
                   signals, killed, sdPc, wg, inShutdown, conn, elapsed,
                   draining>>
    /\ UNCHANGED mwVars

\* Shutdown closed the listener: ListenAndServe returns http.ErrServerClosed
\* and the goroutine ends without a message.
ListenClosed ==
    /\ ~killed
    /\ lsPc = "serving"
    /\ inShutdown
    /\ lsPc' = "exit"
    /\ UNCHANGED <<cfgResult, portBusy, runPc, runErr, ctxDone, cancels,
                   signals, killed, sdPc, wg, inShutdown, conn, elapsed,
                   stderr, draining>>
    /\ UNCHANGED mwVars

\* The server accepts request r and starts its handler.
Accept(r) ==
    /\ ~killed
    /\ lsPc = "serving"
    /\ ~inShutdown
    /\ conn[r] = "none"
    /\ conn' = [conn EXCEPT ![r] = "running"]
    /\ UNCHANGED <<cfgResult, portBusy, runPc, runErr, ctxDone, cancels,
                   signals, killed, lsPc, sdPc, wg, inShutdown, elapsed,
                   stderr, draining>>
    /\ UNCHANGED mwVars

\* The handler of request r returns and its connection becomes idle.
Finish(r) ==
    /\ ~killed
    /\ conn[r] = "running"
    /\ conn' = [conn EXCEPT ![r] = "finished"]
    /\ UNCHANGED <<cfgResult, portBusy, runPc, runErr, ctxDone, cancels,
                   signals, killed, lsPc, sdPc, wg, inShutdown, elapsed,
                   stderr, draining>>
    /\ UNCHANGED mwVars

\* The caller cancels the context it passed to Run; cancelling again is a
\* no-op.
Cancel ==
    /\ ~killed
    /\ cancels < MaxCancels
    /\ cancels' = cancels + 1
    /\ Done
    /\ UNCHANGED <<cfgResult, portBusy, runPc, runErr, signals, killed, lsPc,
                   sdPc, wg, inShutdown, conn, elapsed, stderr>>
    /\ UNCHANGED mwVars

\* The process receives sig while Run is registered: a notified signal makes
\* the context done, any other takes its default action and terminates the
\* process.
Signal(sig) ==
    /\ ~killed
    /\ Registered
    /\ sig \notin signals
    /\ signals' = signals \cup {sig}
    /\ IF sig \in Notified
       THEN Done /\ killed' = killed
       ELSE killed' = TRUE /\ UNCHANGED <<ctxDone, draining>>
    /\ UNCHANGED <<cfgResult, portBusy, runPc, runErr, cancels, lsPc, sdPc,
                   wg, inShutdown, conn, elapsed, stderr>>
    /\ UNCHANGED mwVars

\* <-ctx.Done() returns; context.WithTimeout(..., 10*time.Second) starts the
\* timer and httpServer.Shutdown(shutdownCtx) closes the listener.
ShutdownBegin ==
    /\ ~killed
    /\ sdPc = "waitctx"
    /\ ctxDone
    /\ sdPc' = "polling"
    /\ inShutdown' = TRUE
    /\ elapsed' = 0
    /\ UNCHANGED <<cfgResult, portBusy, runPc, runErr, ctxDone, cancels,
                   signals, killed, lsPc, wg, conn, stderr, draining>>
    /\ UNCHANGED mwVars

\* A second of the shutdown timeout passes.
Tick ==
    /\ ~killed
    /\ sdPc = "polling"
    /\ elapsed < ShutdownTimeout
    /\ elapsed' = elapsed + 1
    /\ UNCHANGED <<cfgResult, portBusy, runPc, runErr, ctxDone, cancels,
                   signals, killed, lsPc, sdPc, wg, inShutdown, conn, stderr,
                   draining>>
    /\ UNCHANGED mwVars

\* Shutdown has returned: its error, if any, goes to stderr, and the
\* deferred wg.Done() runs as the goroutine ends.
ShutdownReturn(msgs) ==
    /\ sdPc' = "exit"
    /\ wg' = wg - 1
    /\ stderr' = stderr \o msgs

\* Shutdown finds no handler running and returns nil.
ShutdownIdle ==
    /\ ~killed
    /\ sdPc = "polling"
    /\ \A r \in Requests : conn[r] # "running"
    /\ ShutdownReturn(<<>>)
    /\ UNCHANGED <<cfgResult, portBusy, runPc, runErr, ctxDone, cancels,
                   signals, killed, lsPc, inShutdown, conn, elapsed, draining>>
    /\ UNCHANGED mwVars

\* The shutdown context expires with a handler still running: Shutdown
\* returns the context's error.
ShutdownDeadline ==
    /\ ~killed
    /\ sdPc = "polling"
    /\ elapsed = ShutdownTimeout
    /\ \E r \in Requests : conn[r] = "running"
    /\ ShutdownReturn(<<"error shutting down http server">>)
    /\ UNCHANGED <<cfgResult, portBusy, runPc, runErr, ctxDone, cancels,
                   signals, killed, lsPc, inShutdown, conn, elapsed, draining>>
    /\ UNCHANGED mwVars

\* Run is called in an environment that parses or does not, on an address
\* that is free or not; requests arrive while the server serves.
InitRun ==
    /\ InitRequests({StackOf(<<>>)}, {}, {"GET"}, {"/"})
    /\ InitBody({0}, {})
    /\ InitHeader
    /\ InitExt
    /\ cfgResult \in ConfigResults
    /\ portBusy \in BOOLEAN
    /\ runPc = "idle"
    /\ runErr = NoError
    /\ ctxDone = FALSE
    /\ cancels = 0
    /\ signals = {}
    /\ killed = FALSE
    /\ lsPc = "none"
    /\ sdPc = "none"
    /\ wg = 0
    /\ inShutdown = FALSE
    /\ conn = [r \in Requests |-> "none"]
    /\ elapsed = 0
    /\ stderr = <<>>
    /\ draining = {}

NextRun ==
    \/ RunNotifyContext
    \/ RunCreateServer
    \/ RunGoListen
    \/ RunGoShutdown
    \/ RunReturn
    \/ ListenAndServe
    \/ ListenClosed
    \/ \E r \in Requests : Accept(r)
    \/ \E r \in Requests : Finish(r)
    \/ Cancel
    \/ ShutdownBegin
    \/ Tick
    \/ ShutdownIdle
    \/ ShutdownDeadline

SpecRun == InitRun /\ [][NextRun]_vars

\* The goroutines of Run are scheduled whenever they can take a step and
\* the shutdown timer runs; nothing obliges the caller to cancel, a client
\* to send a request or a handler to return.
FairRun ==
    /\ WF_vars(RunNotifyContext)
    /\ WF_vars(RunCreateServer)
    /\ WF_vars(RunGoListen)
    /\ WF_vars(RunGoShutdown)
    /\ WF_vars(RunReturn)
    /\ WF_vars(ListenAndServe)
    /\ WF_vars(ListenClosed)
    /\ WF_vars(ShutdownBegin)
    /\ WF_vars(Tick)
    /\ WF_vars(ShutdownIdle)
    /\ WF_vars(ShutdownDeadline)

SpecRunFair == InitRun /\ [][NextRun]_vars /\ FairRun

\* Run in a process that receives signals.
NextSignal ==
    \/ NextRun
    \/ \E sig \in {"SIGINT", "SIGTERM"} : Signal(sig)

SpecSignal == InitRun /\ [][NextSignal]_vars

\* ------------------------------------------------------------ mixed stacks
MaxMixed == 2
MaxMixedCalls == 2
MaxMixedSets == 1
MaxMixedReads == 1

MixedUnits ==
    {NewLoggingMiddleware, NewMaxBytesReader(2),
     NewSetContentType("application/json"), NewSetContentType("text/plain")}

\* One request through a stack of logging, limiter and header-setter units;
\* the handler sets the header, writes and reads in any order.
InitMixed ==
    /\ InitRequests({StackOf(xs) : xs \in BoundedSeq(MixedUnits, MaxMixed)},
                    {1}, {"POST"}, {"/"})
    /\ InitBody({3}, {1})
    /\ InitHeader
    /\ InitResp
    /\ InitReq({<<>>, <<"X-Test">>}, {<<>>, <<"test-user">>}, {1})
    /\ InitRest
    /\ InitRunIdle

NextMixed ==
    \/ Wrap
    \/ \E r \in Requests :
          \/ Serve(r)
          \/ LoggingBefore(r)
          \/ LoggingAfter(r, 0)
          \/ LimitBefore(r)
          \/ LimitAfter(r)
          \/ NewSetContentTypeBefore(r)
          \/ NewSetContentTypeAfter(r)
          \/ HandlerEnter(r)
          \/ HandlerSetHeader(r, "text/html", MaxMixedSets)
          \/ HandlerWriteHeader(r, StatusOK, MaxMixedCalls)
          \/ \E b \in {"x", "hello"} : HandlerWrite(r, b, MaxMixedCalls)
          \/ HandlerRead(r, 512, MaxMixedReads)
          \/ HandlerReturn(r)

SpecMixed == InitMixed /\ [][NextMixed]_vars

\* ------------------------------------------------- CreateStack and slices
MaxSlice == 2
MaxApplications == 2

OtherHandler == Middleware("base", "other", <<>>)

\* The units the caller puts into its slice.
SliceUnits == {recordingMiddleware("A"), recordingMiddleware("B")}

\* The xs the closure of CreateStack ranges over when it runs: the elements
\* of the caller's slice when the call was CreateStack(units...), which
\* passes that slice itself, and the elements at the time of the call when
\* the units were passed one by one, which allocates a slice of its own.
ClosureXs == IF shared THEN backing ELSE composed

\* units[i] = u: the caller assigns an element of the slice it kept.
AssignElement(i, u) ==
    /\ i \in 1..Len(backing)
    /\ backing[i] # u
    /\ backing' = [backing EXCEPT ![i] = u]
    /\ mw' = IF shared THEN StackOf(backing') ELSE mw
    /\ UNCHANGED <<h, applied, pc, depth, order, invoked, calls, sinkCalls,
                   statusCode, log, method, path, panicVal, raised,
                   bodyVars, headerVars, runVars, respVars, reqVars,
                   shared, composed, nestings, cfgVars>>

\* stack(b): the closure runs its loop over xs and returns the handler.
ApplyStack(b, bound) ==
    /\ Len(nestings) < bound
    /\ nestings' = Append(nestings, [base |-> b, h |-> CreateStack(ClosureXs, <<b>>)])
    /\ UNCHANGED <<mw, h, applied, pc, depth, order, invoked, calls, sinkCalls,
                   statusCode, log, method, path, panicVal, raised,
                   bodyVars, headerVars, runVars, respVars, reqVars,
                   backing, shared, composed, cfgVars>>

\* stack := CreateStack(...) has returned, called with the caller's slice or
\* with its elements.
InitSlice ==
    /\ backing \in BoundedSeq(SliceUnits, MaxSlice) \ {<<>>}
    /\ shared \in BOOLEAN
    /\ composed = backing
    /\ nestings = <<>>
    /\ InitRequests({StackOf(backing)}, {}, {"GET"}, {"/"})
    /\ InitBody({0}, {})
    /\ InitHeader
    /\ InitResp
    /\ InitReq({<<>>}, {<<>>}, {})
    /\ InitConfigIdle
    /\ InitRunIdle

NextSlice ==
    \/ \E i \in 1..MaxSlice : \E u \in SliceUnits : AssignElement(i, u)
    \/ \E b \in {BaseHandler, OtherHandler} : ApplyStack(b, MaxApplications)

SpecSlice == InitSlice /\ [][NextSlice]_vars

\* ------------------------------------------------------- configuration
MaxLoggerCalls == 2

Local == "local"
Test == "test"
Production == "production"

\* strconv.ParseInt(s, 10, ...) on the strings the environments hold: a
\* string outside the domain is not a number.
Atoi ==
    "0" :> 0 @@ "15" :> 15 @@ "30" :> 30 @@ "45" :> 45 @@ "60" :> 60 @@
    "120" :> 120 @@ "3000" :> 3000 @@ "+3000" :> 3000 @@ "8080" :> 8080

\* The verb %d of fmt.Sprintf.
Itoa ==
    0 :> "0" @@ 15 :> "15" @@ 30 :> "30" @@ 45 :> "45" @@ 60 :> "60" @@
    120 :> "120" @@ 3000 :> "3000" @@ 8080 :> "8080"

\* strconv.ParseBool: the strings it takes for true and for false.
BoolTrue == {"1", "t", "T", "TRUE", "true", "True"}
BoolFalse == {"0", "f", "F", "FALSE", "false", "False"}

\* The string a field is parsed from: the variable, or the field's
\* envDefault when the variable is unset or empty.
Lookup(env, k) == IF env[k] = "" THEN EnvDefault[k] ELSE env[k]

\* The variables whose string the type of their field does not parse.
Unparsable(env) ==
    {k \in {"PORT", "READ_TIMEOUT", "WRITE_TIMEOUT", "IDLE_TIMEOUT"} :
        Lookup(env, k) \notin DOMAIN Atoi}
    \cup {k \in {"VERBOSE"} : Lookup(env, k) \notin BoolTrue \cup BoolFalse}

\* env.ParseAs[ServerConfig](): the struct filled from the environment, or
\* an error when a variable does not parse as the type of its field.
ParseAs(env) ==
    IF Unparsable(env) # {}
    THEN [cfg |-> ZeroConfig, err |-> <<"env: parse error">>]
    ELSE [cfg |-> [Environment  |-> Lookup(env, "ENVIRONMENT"),
                   VerboseMode  |-> Lookup(env, "VERBOSE") \in BoolTrue,
                   Port         |-> Atoi[Lookup(env, "PORT")],
                   ReadTimeout  |-> Atoi[Lookup(env, "READ_TIMEOUT")],
                   WriteTimeout |-> Atoi[Lookup(env, "WRITE_TIMEOUT")],
                   IdleTimeout  |-> Atoi[Lookup(env, "IDLE_TIMEOUT")]],
          err |-> NoError]

\* ServerConfig.Validate: the switch on c.Environment.
Validate(c) ==
    IF c.Environment \in {Local, Test, Production}
    THEN NoError
    ELSE <<"invalid environment: " \o c.Environment
           \o " (must be local, test or production)">>

\* ParseConfig that returns the parsed struct with a validation error.
ParseConfigOfKeepParsed(env) ==
    LET parsed == ParseAs(env) IN
    IF parsed.err # NoError
    THEN [cfg |-> ZeroConfig,
          err |-> Wrapf("failed to parse config from environment", parsed.err)]
    ELSE IF Validate(parsed.cfg) # NoError
    THEN [cfg |-> parsed.cfg,
          err |-> Wrapf("config validation failed", Validate(parsed.cfg))]
    ELSE [cfg |-> parsed.cfg, err |-> NoError]

\* ParseConfig[ServerConfig]() under the environment env: what it returns.
ParseConfigOf(env) ==
    LET parsed == ParseAs(env) IN
    IF parsed.err # NoError
    THEN [cfg |-> ZeroConfig,
          err |-> Wrapf("failed to parse config from environment", parsed.err)]
    ELSE IF Validate(parsed.cfg) # NoError
    THEN [cfg |-> ZeroConfig,
          err |-> Wrapf("config validation failed", Validate(parsed.cfg))]
    ELSE [cfg |-> parsed.cfg, err |-> NoError]

\* Which of ConfigResults the environment env is.
Outcome(env) ==
    IF ParseAs(env).err # NoError THEN "parse"
    ELSE IF Validate(ParseAs(env).cfg) # NoError THEN "validate"
    ELSE "ok"

\* time.Duration(n) * time.Second, in milliseconds.
Seconds(n) == n * 1000

\* The http.Server literal with the two timeouts swapped.
HttpServerSwapped(handler, cfg) ==
    [Addr         |-> ":" \o Itoa[cfg.Port],
     Handler      |-> handler,
     ReadTimeout  |-> Seconds(cfg.WriteTimeout),
     WriteTimeout |-> Seconds(cfg.ReadTimeout),
     IdleTimeout  |-> Seconds(cfg.IdleTimeout)]

\* The http.Server literal of NewServerWithConfig.
HttpServer(handler, cfg) ==
    [Addr         |-> ":" \o Itoa[cfg.Port],
     Handler      |-> handler,
     ReadTimeout  |-> Seconds(cfg.ReadTimeout),
     WriteTimeout |-> Seconds(cfg.WriteTimeout),
     IdleTimeout  |-> Seconds(cfg.IdleTimeout)]

\* slog levels.
LevelOf == "DEBUG" :> 0 - 4 @@ "INFO" :> 0

\* logger.Handler().Enabled(ctx, level)
Enabled(logger, level) == LevelOf[level] >= LevelOf[logger.level]

\* The logger of SetDefaultLogger with the text handler kept for every
\* environment but production.
NewLoggerTextUnlessProduction(cfg, id) ==
    [id     |-> id,
     level  |-> IF cfg.VerboseMode THEN "DEBUG" ELSE "INFO",
     format |-> IF cfg.Environment # Production THEN "text" ELSE "json"]

\* The logger SetDefaultLogger builds from cfg; id tells the allocations
\* apart.
NewLogger(cfg, id) ==
    [id     |-> id,
     level  |-> IF cfg.VerboseMode THEN "DEBUG" ELSE "INFO",
     format |-> IF cfg.Environment = Local THEN "text" ELSE "json"]

\* cfg, err := config.ParseConfig[config.ServerConfig]() called by the
\* application.
CallParseConfig ==
    /\ parseResult = <<>>
    /\ parseResult' = <<ParseConfigOf(environ)>>
    /\ UNCHANGED <<mw, h, applied, pc, depth, order, invoked, calls, sinkCalls,
                   statusCode, log, method, path, panicVal, raised,
                   bodyVars, headerVars, runVars, respVars, reqVars, sliceVars,
                   environ, defaultLogger, loggerCalls, callPc, callHandler,
                   callCfg, callLogger, callResult, usedLogger>>

\* logging.SetDefaultLogger(cfg) called by the application, from one
\* goroutine.
SetDefaultLogger(cfg, bound) ==
    /\ Len(loggerCalls) < bound
    /\ defaultLogger' = NewLogger(cfg, <<0, Len(loggerCalls) + 1>>)
    /\ loggerCalls' = Append(loggerCalls, cfg)
    /\ UNCHANGED <<mw, h, applied, pc, depth, order, invoked, calls, sinkCalls,
                   statusCode, log, method, path, panicVal, raised,
                   bodyVars, headerVars, runVars, respVars, reqVars, sliceVars,
                   environ, parseResult, callPc, callHandler, callCfg,
                   callLogger, callResult, usedLogger>>

\* What the steps of NewServerWithConfig leave alone.
CreateUnchanged ==
    UNCHANGED <<mw, h, applied, pc, depth, order, invoked, calls, sinkCalls,
                statusCode, log, method, path, panicVal, raised,
                bodyVars, headerVars, runVars, respVars, reqVars, sliceVars,
                environ, parseResult>>

\* NewServerWithConfig(handler), up to the return on a configuration error.
CreateParse(c, handler) ==
    /\ callPc[c] = "idle"
    /\ callHandler' = [callHandler EXCEPT ![c] = handler]
    /\ LET res == ParseConfigOf(environ) IN
       IF res.err # NoError
       THEN /\ callResult' = [callResult EXCEPT ![c] =
                   <<[server |-> NilServer,
                      err |-> Wrapf("failed to create config from environment",
                                    res.err)]>>]
            /\ callPc' = [callPc EXCEPT ![c] = "done"]
            /\ UNCHANGED callCfg
       ELSE /\ callCfg' = [callCfg EXCEPT ![c] = res.cfg]
            /\ callPc' = [callPc EXCEPT ![c] = "parsed"]
            /\ UNCHANGED callResult
    /\ UNCHANGED <<defaultLogger, loggerCalls, callLogger, usedLogger>>
    /\ CreateUnchanged

\* SetDefaultLogger inside NewServerWithConfig, up to slog.SetDefault: the
\* logger is built.
CreateLogger(c) ==
    /\ callPc[c] = "parsed"
    /\ callLogger' = [callLogger EXCEPT ![c] = NewLogger(callCfg[c], <<c, 1>>)]
    /\ callPc' = [callPc EXCEPT ![c] = "built"]
    /\ UNCHANGED <<defaultLogger, loggerCalls, callHandler, callCfg, callResult,
                   usedLogger>>
    /\ CreateUnchanged

\* slog.SetDefault(logger): the process default logger is replaced.
CreateSetDefault(c) ==
    /\ callPc[c] = "built"
    /\ defaultLogger' = callLogger[c]
    /\ loggerCalls' = Append(loggerCalls, callCfg[c])
    /\ callPc' = [callPc EXCEPT ![c] = "installed"]
    /\ UNCHANGED <<callHandler, callCfg, callLogger, callResult, usedLogger>>
    /\ CreateUnchanged

\* The rest of NewServerWithConfig: the server is built, "created server"
\* is logged through slog.Default(), the server is returned.
CreateServer(c) ==
    /\ callPc[c] = "installed"
    /\ usedLogger' = [usedLogger EXCEPT ![c] = defaultLogger]
    /\ callResult' = [callResult EXCEPT ![c] =
           <<[server |-> HttpServer(callHandler[c], callCfg[c]),
              err |-> NoError]>>]
    /\ callPc' = [callPc EXCEPT ![c] = "done"]
    /\ UNCHANGED <<defaultLogger, loggerCalls, callHandler, callCfg, callLogger>>
    /\ CreateUnchanged

\* The values the environment variables take.
EnvValues ==
    [k \in EnvKeys |->
        CASE k = "ENVIRONMENT"   -> {"", "local", "test", "production",
                                     "staging", "LOCAL"}
          [] k = "VERBOSE"       -> {"", "true", "yes"}
          [] k = "PORT"          -> {"", "3000", "+3000", "not-a-number"}
          [] k = "READ_TIMEOUT"  -> {"", "30"}
          [] k = "WRITE_TIMEOUT" -> {"", "45"}
          [] k = "IDLE_TIMEOUT"  -> {"", "120"}]

Environs == {env \in [EnvKeys -> UNION {EnvValues[k] : k \in EnvKeys}] :
                \A k \in EnvKeys : env[k] \in EnvValues[k]}

\* The environments under which ParseConfig succeeds.
ValidEnvirons == {env \in Environs : Outcome(env) = "ok"}

InitConfigWith(envs) ==
    /\ environ \in envs
    /\ InitCalls
    /\ InitRequests({StackOf(<<>>)}, {}, {"GET"}, {"/"})
    /\ InitBody({0}, {})
    /\ InitHeader
    /\ InitResp
    /\ InitReq({<<>>}, {<<>>}, {})
    /\ InitSliceIdle
    /\ InitRunIdle

\* One goroutine calls ParseConfig and NewServerWithConfig under any
\* environment.
InitConfig == InitConfigWith(Environs)

NextConfig ==
    \/ CallParseConfig
    \/ \E hd \in {BaseHandler, OtherHandler} : CreateParse(1, hd)
    \/ CreateLogger(1)
    \/ CreateSetDefault(1)
    \/ CreateServer(1)

SpecConfig == InitConfig /\ [][NextConfig]_vars

\* Several goroutines call NewServerWithConfig at once under an environment
\* that is valid.
CreateEnvirons ==
    {env \in ValidEnvirons :
        /\ env["PORT"] = ""
        /\ env["READ_TIMEOUT"] = ""
        /\ env["WRITE_TIMEOUT"] = ""
        /\ env["IDLE_TIMEOUT"] = ""}

InitCreate == InitConfigWith(CreateEnvirons)

NextCreate ==
    \E c \in Callers :
        \/ CreateParse(c, BaseHandler)
        \/ CreateLogger(c)
        \/ CreateSetDefault(c)
        \/ CreateServer(c)

SpecCreate == InitCreate /\ [][NextCreate]_vars

\* The configurations the application passes to SetDefaultLogger.
LoggerConfigs ==
    {[ZeroConfig EXCEPT !.Environment = e, !.VerboseMode = v] :
        e \in {Local, Test, Production, "staging", ""}, v \in BOOLEAN}

InitLogger == InitConfigWith({EmptyEnviron})

NextLogger == \E cfg \in LoggerConfigs : SetDefaultLogger(cfg, MaxLoggerCalls)

SpecLogger == InitLogger /\ [][NextLogger]_vars

\* ------------------------------------------------------------- properties
IsPrefix(s, t) == Len(s) <= Len(t) /\ SubSeq(t, 1, Len(s)) = s

Befores(us) == [i \in 1..Len(us) |-> us[i].name \o ":before"]

Afters(us) == [i \in 1..Len(us) |-> us[Len(us) + 1 - i].name \o ":after"]

\* The trace of recording units us around the base handler, us[1] outermost.
ExpectedOrder(us) == Befores(us) \o <<"handler">> \o Afters(us)

AllRecording(us) == \A i \in 1..Len(us) : us[i].kind = "rec"

Started(r) == pc[r] \notin {"off", "idle"}

DebugIdx(r) == {i \in 1..Len(log) : log[i].req = r /\ log[i].level = "DEBUG"}

InfoIdx(r) == {i \in 1..Len(log) : log[i].req = r /\ log[i].level = "INFO"}

\* C1: a request served by CreateStack(U1..Un)(H), n >= 1, runs the units'
\* before logic in the order U1..Un, then H exactly once, then the units'
\* after logic in the order Un..U1: the trace recorded so far is always a
\* prefix of that sequence and is the whole sequence once the request is done.
C1_ExecutionOrder ==
    \A r \in Requests :
        (mw.kind = "stack" /\ Len(mw.xs) >= 1 /\ AllRecording(mw.xs) /\ Started(r))
        => /\ IsPrefix(order[r], ExpectedOrder(mw.xs))
           /\ invoked[r] <= 1
           /\ pc[r] = "done" =>
                 /\ order[r] = ExpectedOrder(mw.xs)
                 /\ invoked[r] = 1

C1_Witness ==
    /\ mw = StackOf(<<recordingMiddleware("A"), recordingMiddleware("B"),
                      recordingMiddleware("C")>>)
    /\ pc[1] = "done"
    /\ order[1] = <<"A:before", "B:before", "C:before", "handler",
                    "C:after", "B:after", "A:after">>

\* C2: CreateStack() with no units is the identity: applied to H it returns
\* H itself, so a request runs H alone and the underlying response receives
\* exactly the calls H made.
C2_EmptyStackIdentity ==
    (mw = StackOf(<<>>) /\ applied)
    => /\ h = <<BaseHandler>>
       /\ \A r \in Requests :
             /\ sinkCalls[r] = calls[r]
             /\ pc[r] = "done" =>
                   /\ order[r] = <<"handler">>
                   /\ invoked[r] = 1
                   /\ RecorderCode(sinkCalls[r]) = RecorderCode(calls[r])
                   /\ RecorderBody(sinkCalls[r]) = RecorderBody(calls[r])

C2_Witness ==
    /\ mw = StackOf(<<>>)
    /\ pc[1] = "done"
    /\ calls[1] = <<Call("WriteHeader", StatusOK, "")>>
    /\ sinkCalls[1] = calls[1]

RECURSIVE Flatten(_)
\* The units of xs with every composed stack replaced by its own units.
Flatten(xs) ==
    IF xs = <<>> THEN <<>>
    ELSE (IF Head(xs).kind = "stack" THEN Flatten(Head(xs).xs) ELSE <<Head(xs)>>)
         \o Flatten(Tail(xs))

\* The trace a chain of recording wrappers around the base handler produces.
ChainTrace(chain) == ExpectedOrder(SubSeq(chain, 1, Len(chain) - 1))

\* C3: a stack that has composed stacks among its units gives a request the
\* same trace as the stack composed from the flattened list of units.
C3_NestedEqualsFlat ==
    \A r \in Requests :
        (mw.kind = "stack" /\ pc[r] = "done")
        => order[r] = ChainTrace(CreateStack(Flatten(mw.xs), <<BaseHandler>>))

C3_Witness ==
    /\ mw = StackOf(<<recordingMiddleware("A"),
                      StackOf(<<recordingMiddleware("B"), recordingMiddleware("C")>>)>>)
    /\ pc[1] = "done"
    /\ order[1] = <<"A:before", "B:before", "C:before", "handler",
                    "C:after", "B:after", "A:after">>

\* The first status established by a sequence of response calls.
FirstStatus(cs) == IF cs[1].op = "WriteHeader" THEN cs[1].code ELSE StatusOK

\* C4: the status in the "request complete" record is the first status the
\* handler established: the code of its first WriteHeader when that comes
\* before any Write, else the 200 of its first Write; later WriteHeader
\* calls do not change it.
C4_FirstStatusLogged ==
    \A i \in 1..Len(log) :
        (log[i].level = "INFO" /\ calls[log[i].req] # <<>>)
        => log[i].attrs.status = FirstStatus(calls[log[i].req])

OnlyWrites(cs) == cs # <<>> /\ \A i \in 1..Len(cs) : cs[i].op = "Write"

\* C5: when the handler only writes body data, the first Write sets the
\* observed status to 200, further Writes leave it there, every Write
\* reaches the underlying response in order, and the record logs 200.
C5_ImplicitOK ==
    \A r \in Requests :
        OnlyWrites(calls[r])
        => /\ statusCode[WrappedId(r, 1)] = StatusOK
           /\ sinkCalls[r] = calls[r]
           /\ RecorderCode(sinkCalls[r]) = StatusOK
           /\ \A i \in InfoIdx(r) : log[i].attrs.status = StatusOK
           /\ pc[r] = "done" => InfoIdx(r) # {}

C5_Witness ==
    /\ pc[1] = "done"
    /\ Len(calls[1]) = 3
    /\ OnlyWrites(calls[1])
    /\ \E i \in InfoIdx(1) : log[i].attrs.status = StatusOK

StatusThenWrites(cs) ==
    /\ cs # <<>>
    /\ cs[1].op = "WriteHeader"
    /\ \A i \in 2..Len(cs) : cs[i].op = "Write"

\* C6: when the handler sets status S and then only writes body data, the
\* observed status stays S through the writes, the underlying response has
\* status S, and the "request complete" record carries S.
C6_ExplicitStatus ==
    \A r \in Requests :
        StatusThenWrites(calls[r])
        => /\ statusCode[WrappedId(r, 1)] = calls[r][1].code
           /\ RecorderCode(sinkCalls[r]) = calls[r][1].code
           /\ \A i \in InfoIdx(r) : log[i].attrs.status = calls[r][1].code
           /\ pc[r] = "done" => InfoIdx(r) # {}

C6_Witness ==
    /\ pc[1] = "done"
    /\ calls[1] = <<Call("WriteHeader", 404, ""), Call("Write", 0, "x")>>
    /\ \E i \in InfoIdx(1) : log[i].attrs.status = 404

\* C7: when the handler returns without any WriteHeader or Write, the
\* logging middleware still emits one "request complete" info record, and it
\* carries status 200.
C7_SilentHandler ==
    \A r \in Requests :
        (pc[r] = "done" /\ calls[r] = <<>>)
        => /\ Cardinality(InfoIdx(r)) = 1
           /\ \A i \in InfoIdx(r) :
                 /\ log[i].msg = "request complete"
                 /\ log[i].attrs.status = StatusOK

C7_Witness ==
    /\ pc[1] = "done"
    /\ calls[1] = <<>>
    /\ invoked[1] = 1
    /\ \E i \in InfoIdx(1) : log[i].attrs.status = StatusOK

\* C8: a panic of the handler is neither recovered nor converted: the request
\* never completes normally, the value that reaches the caller is the value
\* the handler panicked with, no "request complete" record is emitted, and
\* the "handling request" debug record was emitted before.
C8_PanicPropagates ==
    \A r \in Requests :
        raised[r] # NoPanic
        => /\ pc[r] \in {"panic", "panicked"}
           /\ panicVal[r] = raised[r]
           /\ InfoIdx(r) = {}
           /\ Cardinality(DebugIdx(r)) = 1

C8_Witness ==
    /\ pc[1] = "panicked"
    /\ panicVal[1] = "test panic"
    /\ calls[1] = <<Call("WriteHeader", StatusOK, "")>>
    /\ InfoIdx(1) = {}

\* C9: for a request whose handler does not panic there is exactly one debug
\* record, emitted before the handler is invoked, the handler is invoked
\* exactly once, and exactly one info record, emitted after the handler has
\* returned; no info record exists before the request is done.
C9_RecordsAroundHandler ==
    \A r \in Requests :
        /\ Cardinality(DebugIdx(r)) <= 1
        /\ invoked[r] <= 1
        /\ invoked[r] = 1 => Cardinality(DebugIdx(r)) = 1
        /\ pc[r] # "done" => InfoIdx(r) = {}
        /\ pc[r] = "done" =>
              /\ raised[r] = NoPanic
              /\ invoked[r] = 1
              /\ Cardinality(DebugIdx(r)) = 1
              /\ Cardinality(InfoIdx(r)) = 1
              /\ \A i \in DebugIdx(r), j \in InfoIdx(r) :
                    /\ i < j
                    /\ log[i].attrs = [method |-> method[r], path |-> path[r]]
                    /\ log[j].attrs.method = method[r]
                    /\ log[j].attrs.path = path[r]
                    /\ log[j].attrs.status \in StatusCodes
                    /\ log[j].attrs.duration >= 0

C9_Witness ==
    /\ pc[1] = "done"
    /\ method[1] = "POST"
    /\ calls[1] = <<Call("WriteHeader", StatusOK, "")>>
    /\ Len(log) = 2
    /\ log[1].level = "DEBUG"
    /\ log[2].level = "INFO"
    /\ log[2].attrs.status = StatusOK

RECURSIVE StatusAfter(_)
\* The statusCode of a wrappedWriter that received the calls cs and no other.
StatusAfter(cs) ==
    IF cs = <<>> THEN 0
    ELSE LET prev == StatusAfter(SubSeq(cs, 1, Len(cs) - 1))
             last == cs[Len(cs)]
         IN  IF last.op = "WriteHeader"
             THEN WrappedWriteHeader(prev, last.code)
             ELSE WrappedWrite(prev)

\* C10: with requests interleaved on one logging middleware, each request's
\* observed status depends on the calls of that request's handler only, and
\* its "request complete" record carries that request's method, path and
\* status.
C10_PerRequestState ==
    \A r \in Requests :
        /\ DebugIdx(r) # {} => statusCode[WrappedId(r, 1)] = StatusAfter(calls[r])
        /\ \A i \in InfoIdx(r) :
              /\ log[i].attrs.method = method[r]
              /\ log[i].attrs.path = path[r]
              /\ log[i].attrs.status = FinalStatus(StatusAfter(calls[r]))

C10_Witness ==
    /\ pc[1] = "done"
    /\ pc[2] = "done"
    /\ method[1] # method[2]
    /\ Len(log) = 4
    /\ log[1].req = 1
    /\ log[2].req = 2
    /\ log[3].req = 1
    /\ log[3].attrs.status = 404
    /\ log[4].attrs.status = StatusOK

Last(s) == s[Len(s)]

RECURSIVE Delivered(_)
\* The bytes the reads rs handed to the handler.
Delivered(rs) == IF rs = <<>> THEN 0 ELSE rs[1].n + Delivered(Tail(rs))

\* The handler read the body to its end, as io.ReadAll does: read after
\* read until the first one that returns an error, io.EOF or another.
ReadToEnd(rs) ==
    /\ rs # <<>>
    /\ Last(rs).err # NoErr
    /\ \A i \in 1..(Len(rs) - 1) : rs[i].err = NoErr

\* C11: the limit is inclusive. For every limit N > 0, a handler that reads
\* the whole body through NewMaxBytesReader(N) ends without error (io.EOF,
\* all bytes delivered) when the body has at most N bytes, the empty body
\* included, and ends with the "body too large" error when it has N + 1 or
\* more.
C11_InclusiveLimit ==
    \A r \in Requests : \A m \in LimitArgs \ {0} :
        (mw = NewMaxBytesReader(m) /\ ReadToEnd(reads[r]))
        => /\ bodySize[r] <= m =>
                 /\ Last(reads[r]).err = EOF
                 /\ Delivered(reads[r]) = bodySize[r]
           /\ bodySize[r] >= m + 1 => Last(reads[r]).err = TooLarge

C11_Witness ==
    /\ mw = NewMaxBytesReader(2)
    /\ bodySize[1] = 2
    /\ pc[1] = "done"
    /\ ReadToEnd(reads[1])
    /\ Last(reads[1]).err = EOF
    /\ Delivered(reads[1]) = 2

RECURSIVE ReadsFrom(_, _, _)
\* The results of reads of the sizes ks, in this order, through the readers
\* rs on an underlying body with avail bytes left.
ReadsFrom(rs, ks, avail) ==
    IF ks = <<>> THEN <<>>
    ELSE LET got == BodyRead(rs, Len(rs), Head(ks), avail)
         IN  <<[asked |-> Head(ks), n |-> got.n, err |-> got.err]>>
             \o ReadsFrom(got.rs, Tail(ks), avail - got.took)

Asked(rs) == [i \in 1..Len(rs) |-> rs[i].asked]

\* C12: NewMaxBytesReader(0) is NewMaxBytesReader(1048576): the two close
\* over the same limit, every sequence of reads gets the results a reader
\* limited to 1,048,576 bytes gives, a fully read body of 1,048,576 bytes
\* succeeds and one of 1,048,577 bytes fails.
C12_ZeroIsDefault ==
    mw = NewMaxBytesReader(0)
    => /\ NewMaxBytesReader(0) = NewMaxBytesReader(DefaultMaxBytes)
       /\ \A r \in Requests :
             /\ reads[r] = ReadsFrom(<<[n |-> DefaultMaxBytes, err |-> NoErr]>>,
                                     Asked(reads[r]), bodySize[r])
             /\ ReadToEnd(reads[r]) =>
                   /\ bodySize[r] = DefaultMaxBytes => Last(reads[r]).err = EOF
                   /\ bodySize[r] = DefaultMaxBytes + 1 => Last(reads[r]).err = TooLarge

C12_Witness ==
    /\ mw = NewMaxBytesReader(0)
    /\ bodySize[1] = DefaultMaxBytes
    /\ pc[1] = "done"
    /\ ReadToEnd(reads[1])
    /\ Last(reads[1]).err = EOF
    /\ Delivered(reads[1]) = DefaultMaxBytes

\* C13: enforcement is lazy. The limiter never reads the body itself and
\* invokes the handler exactly once; as long as the handler has not read,
\* nothing was taken from the body and no reader holds an error, whatever the
\* size of the body, and the response is what the handler produced.
C13_LazyEnforcement ==
    \A r \in Requests :
        /\ invoked[r] <= 1
        /\ pc[r] = "done" => invoked[r] = 1
        /\ reads[r] = <<>> =>
              /\ consumed[r] = 0
              /\ \A i \in 1..Len(body[r]) : body[r][i].err = NoErr
              /\ pc[r] = "done" =>
                    /\ RecorderCode(sinkCalls[r]) = RecorderCode(calls[r])
                    /\ RecorderBody(sinkCalls[r]) = RecorderBody(calls[r])

C13_Witness ==
    /\ mw = NewMaxBytesReader(2)
    /\ bodySize[1] = 3
    /\ pc[1] = "done"
    /\ invoked[1] = 1
    /\ reads[1] = <<>>
    /\ consumed[1] = 0
    /\ calls[1] = <<Call("WriteHeader", StatusOK, ""), Call("Write", 0, "x")>>

\* C14: the limiter never sets a status and never writes a body: the calls
\* that reach the response are exactly the calls the handler made, so a
\* request over the limit gets a 413 only from the handler.
C14_LimiterWritesNothing ==
    \A r \in Requests :
        /\ sinkCalls[r] = calls[r]
        /\ RecorderCode(sinkCalls[r]) = RecorderCode(calls[r])

C14_Witness ==
    /\ mw = NewMaxBytesReader(2)
    /\ bodySize[1] = 3
    /\ pc[1] = "done"
    /\ ReadToEnd(reads[1])
    /\ Last(reads[1]).err = TooLarge
    /\ calls[1] = <<Call("WriteHeader", StatusRequestEntityTooLarge, "")>>
    /\ sinkCalls[1] = calls[1]

\* C15: a request whose body exceeds maxBytes gets an error response.
C15_OverLimitErrorResponse ==
    \A r \in Requests :
        (pc[r] = "done" /\ bodySize[r] > mw.maxBytes)
        => RecorderCode(sinkCalls[r]) >= 400

\* C16: for every content type v, the empty string included, and a handler
\* that does not set Content-Type itself, the header holds exactly v from
\* the moment the handler starts until the request is finished, and
\* NewSetContentTypeJSON() is NewSetContentType("application/json").
C16_ContentTypeSet ==
    /\ NewSetContentTypeJSON = NewSetContentType("application/json")
    /\ \A r \in Requests : \A v \in ContentTypes :
          (/\ mw = NewSetContentType(v)
           /\ invoked[r] > 0
           /\ headerSets[r] = <<>>)
          => /\ contentType[r] = <<v>>
             /\ HeaderGet(contentType[r]) = v

C16_Witness ==
    /\ mw = NewSetContentType("")
    /\ pc[1] = "done"
    /\ headerSets[1] = <<>>
    /\ calls[1] = <<Call("Write", 0, "x")>>
    /\ contentType[1] = <<"">>

\* Run has created the server and has not returned.
Serving == runPc \in {"created", "listening", "wait"}

\* C17: once Run has created the server, a cancellation of the context
\* passed to Run, whether the caller cancels once or several times, leads to
\* Run returning, and it returns nil.
C17_CancelReturnsNil ==
    (Serving /\ cancels > 0) ~> (runPc = "returned" /\ runErr = NoError)

C17_Witness ==
    /\ cfgResult = "ok"
    /\ cancels > 1
    /\ runPc = "returned"
    /\ runErr = NoError
    /\ sdPc = "exit"

\* C18: shutdown is graceful. No handler is cut short; when Run has returned
\* while a handler that ran at the moment the context became done is still
\* running, the 10 seconds of the shutdown timeout have passed; and once
\* they have passed Run returns whatever the handlers do.
C18_GracefulShutdown ==
    /\ [](\A r \in draining :
             (runPc = "returned" /\ conn[r] = "running")
             => elapsed = ShutdownTimeout)
    /\ [][\A r \in Requests :
             conn[r] = "running" => conn'[r] \in {"running", "finished"}]_vars
    /\ (sdPc = "polling" /\ elapsed = ShutdownTimeout) ~> (runPc = "returned")

C18_Witness ==
    /\ runPc = "returned"
    /\ runErr = NoError
    /\ 1 \in draining
    /\ conn[1] = "finished"
    /\ elapsed > 0
    /\ elapsed < ShutdownTimeout
    /\ stderr = <<>>

\* C19: Run returns a non-nil error exactly when NewServerWithConfig fails;
\* the error wraps the configuration error, and in that case Run returns
\* before any goroutine is started, so the server never listens. Errors of
\* ListenAndServe and Shutdown reach stderr only: a Run that reported one
\* returns nil.
C19_ErrorIffCreationFails ==
    /\ runPc = "returned" =>
          (runErr # NoError <=> NewServerWithConfig(cfgResult) # NoError)
    /\ (runPc = "returned" /\ runErr # NoError) =>
          runErr = Wrapf("failed to create server with config from environment",
                         Wrapf("failed to create config from environment",
                               ParseConfig(cfgResult)))
    /\ NewServerWithConfig(cfgResult) # NoError =>
          /\ runPc \in {"idle", "notified", "returned"}
          /\ lsPc = "none"
          /\ sdPc = "none"
          /\ ~inShutdown
          /\ stderr = <<>>
          /\ \A r \in Requests : conn[r] = "none"
    /\ (runPc = "returned" /\ stderr # <<>>) => runErr = NoError

C19_Witness ==
    /\ cfgResult = "validate"
    /\ runPc = "returned"
    /\ runErr = <<"failed to create server with config from environment",
                  "failed to create config from environment",
                  "config validation failed",
                  "invalid environment">>
    /\ lsPc = "none"

\* C20: a SIGINT and a SIGTERM received while Run serves both start the
\* graceful shutdown: the context Run waits on is done and the process is
\* still running.
C20_SignalsStartShutdown ==
    \A sig \in signals : ctxDone /\ ~killed

\* The bytes delivered by the reads before read i.
DeliveredBefore(rs, i) == Delivered(SubSeq(rs, 1, i - 1))

\* C26: for every limit N > 0 the reads of the handler never deliver more
\* than N bytes in total; on a body of more than N bytes a read that asks
\* for more than is left of N delivers what is left and returns the "body
\* too large" error; no panic is raised and the limiter's own call returns
\* once the handler has.
C26_NeverBeyondLimit ==
    \A r \in Requests : \A m \in LimitArgs \ {0} :
        mw = NewMaxBytesReader(m)
        => /\ Delivered(reads[r]) <= m
           /\ \A i \in 1..Len(reads[r]) :
                 /\ reads[r][i].n <= reads[r][i].asked
                 /\ (/\ bodySize[r] > m
                     /\ DeliveredBefore(reads[r], i) + reads[r][i].asked > m)
                    => /\ reads[r][i].err = TooLarge
                       /\ reads[r][i].n = m - DeliveredBefore(reads[r], i)
           /\ pc[r] \notin {"panic", "panicked"}
           /\ raised[r] = NoPanic
           /\ (pc[r] = "ret" /\ depth[r] = 1) => ENABLED LimitAfter(r)

C26_Witness ==
    /\ mw = NewMaxBytesReader(2)
    /\ bodySize[1] = 3
    /\ pc[1] = "done"
    /\ Len(reads[1]) = 2
    /\ reads[1][1] = [asked |-> 1, n |-> 1, err |-> NoErr]
    /\ reads[1][2] = [asked |-> 2, n |-> 1, err |-> TooLarge]
    /\ raised[1] = NoPanic

\* C30: when the server was created, Run has returned only if the context
\* it was given was cancelled or an interrupt arrived, and it returned nil;
\* a ListenAndServe that failed is reported on stderr and leaves Run
\* waiting for the shutdown goroutine.
C30_BlocksUntilCancelled ==
    /\ (runPc = "returned" /\ NewServerWithConfig(cfgResult) = NoError)
       => /\ cancels > 0 \/ "SIGINT" \in signals
          /\ runErr = NoError
    /\ (lsPc = "exit" /\ portBusy /\ ~inShutdown)
       => /\ stderr = <<"error listening and serving">>
          /\ runPc \in {"listening", "wait"}
          /\ runPc = "wait" => wg = 1

C30_Witness ==
    /\ cfgResult = "ok"
    /\ portBusy
    /\ runPc = "returned"
    /\ runErr = NoError
    /\ cancels > 0
    /\ stderr = <<"error listening and serving">>

\* The content types of the header setters of a chain, outermost first.
RECURSIVE SetterTypes(_)
SetterTypes(hh) ==
    IF hh = <<>> THEN <<>>
    ELSE (IF Head(hh).kind = "ctype" THEN <<Head(hh).value>> ELSE <<>>)
         \o SetterTypes(Tail(hh))

\* The response's Content-Type: the header as it was when the first
\* WriteHeader or Write wrote it, the current one when nothing was written.
ResponseType(r) == IF sinkCalls[r] = <<>> THEN contentType[r] ELSE sentType[r]

IsHeaderOp(o) == o.op = "Header"

RECURSIVE BeforeWrite(_)
\* The header assignments of os that precede the first WriteHeader or Write.
BeforeWrite(os) ==
    IF os = <<>> \/ ~IsHeaderOp(Head(os)) THEN <<>>
    ELSE <<Head(os)>> \o BeforeWrite(Tail(os))

\* The response a recorder builds from the operations os when the header
\* holds the values ct before the first of them.
RecorderResponse(ct, os) ==
    LET pre == BeforeWrite(os)
        set == IF pre = <<>> THEN ct ELSE <<Last(pre).data>>
        rest == SubSeq(os, Len(pre) + 1, Len(os))
        hdrs == SelectSeq(os, IsHeaderOp)
    IN  [code |-> IF rest = <<>> THEN StatusOK
                  ELSE IF rest[1].op = "WriteHeader" THEN rest[1].code
                  ELSE StatusOK,
         type |-> IF rest = <<>>
                  THEN (IF hdrs = <<>> THEN ct ELSE <<Last(hdrs).data>>)
                  ELSE IF rest[1].op = "Write" /\ set = <<>> THEN <<SniffedType>>
                  ELSE set,
         body |-> [i \in 1..Len(SelectSeq(os, IsWrite)) |->
                      SelectSeq(os, IsWrite)[i].data]]

\* The chain without its logging frames.
IsNotLogging(u) == u.kind # "log"

\* C25: the logging middleware is transparent to the response. What the
\* handler does to its ResponseWriter reaches the underlying writer call for
\* call, with the same arguments and in the same order, Write hands back what
\* the underlying Write returned, and status, header and body of the
\* response are those a recorder builds from the handler's operations when
\* the logging frames are left out of the chain.
C25_LoggingTransparent ==
    \A r \in Requests :
        /\ sinkOps[r] = ops[r]
        /\ \A i \in 1..Len(ops[r]) :
              ops[r][i].op = "Write" => ops[r][i].n = Len(ops[r][i].data)
        /\ pc[r] = "done" =>
              LET bare == SelectSeq(h, IsNotLogging)
                  ct == IF SetterTypes(bare) = <<>> THEN <<>>
                        ELSE <<Last(SetterTypes(bare))>>
                  want == RecorderResponse(ct, ops[r])
              IN  /\ RecorderCode(sinkCalls[r]) = want.code
                  /\ ResponseType(r) = want.type
                  /\ [i \in 1..Len(RecorderBody(sinkCalls[r])) |->
                         RecorderBody(sinkCalls[r])[i].data] = want.body

C25_Witness ==
    /\ mw = StackOf(<<NewLoggingMiddleware, NewLoggingMiddleware>>)
    /\ pc[1] = "done"
    /\ ops[1] = <<OpHeader("text/html"), OpWrite("hello", [n |-> 5, err |-> "nil"])>>
    /\ sinkOps[1] = ops[1]
    /\ ResponseType(1) = <<"text/html">>

\* C27: every unit hands on the request it received. The base handler gets
\* the method, path, header and context values of the request the caller
\* made, whatever the stack; the body reader is wrapped once per limiter
\* above the handler and by nothing else.
C27_RequestUnchanged ==
    \A r \in Requests :
        /\ pc[r] \notin {"off", "idle"} => req[r] = Origin(r)
        /\ invoked[r] > 0 =>
              /\ seen[r] = Origin(r)
              /\ Len(body[r]) = Len(SelectSeq(h, LAMBDA u : u.kind = "limit"))
        /\ Len(body[r]) <= Len(SelectSeq(h, LAMBDA u : u.kind = "limit"))

C27_Witness ==
    /\ mw = StackOf(<<NewLoggingMiddleware, NewMaxBytesReader(2)>>)
    /\ pc[1] = "done"
    /\ reqCtx[1] = <<"test-user">>
    /\ reqHeader[1] = <<"X-Test">>
    /\ seen[1] = Request("POST", "/", <<"X-Test">>, <<"test-user">>)
    /\ Len(body[1]) = 1

\* C29 as stated: whenever the handler assigned Content-Type the response
\* carries exactly the value of its last assignment, and otherwise the value
\* of the innermost header setter.
C29_LastAssignmentWins ==
    \A r \in Requests :
        (pc[r] = "done" /\ SetterTypes(h) # <<>>)
        => ResponseType(r) = IF headerSets[r] # <<>> THEN <<Last(headerSets[r])>>
                             ELSE <<Last(SetterTypes(h))>>

\* C29, amended: the setter replaces the header before it delegates, so the
\* handler starts with the single value of the innermost setter, and the
\* response carries the single value of the last assignment made before the
\* header was written by the first WriteHeader or Write: the handler's when
\* it made one by then, the innermost setter's otherwise.
C29_LastAssignmentBeforeWrite ==
    \A r \in Requests :
        SetterTypes(h) # <<>>
        => /\ (invoked[r] > 0 /\ ops[r] = <<>>)
              => contentType[r] = <<Last(SetterTypes(h))>>
           /\ pc[r] = "done"
              => LET asg == IF sinkCalls[r] = <<>>
                            THEN SelectSeq(ops[r], IsHeaderOp)
                            ELSE BeforeWrite(ops[r])
                 IN  ResponseType(r) = IF asg # <<>> THEN <<Last(asg).data>>
                                       ELSE <<Last(SetterTypes(h))>>

C29_Witness ==
    /\ mw = StackOf(<<NewSetContentType("application/json"),
                      NewSetContentType("text/plain")>>)
    /\ pc[1] = "done"
    /\ ops[1] = <<OpHeader("text/html"), OpWriteHeader(StatusOK)>>
    /\ ResponseType(1) = <<"text/html">>

\* C28: a composed stack is immutable once CreateStack has returned: every
\* application, whenever it happens and whatever the caller did to its slice
\* in between, nests the units the stack was composed of, in their order,
\* around the handler it is applied to.
C28_StackImmutable ==
    /\ mw = StackOf(composed)
    /\ \A i \in 1..Len(nestings) :
          nestings[i].h = CreateStack(composed, <<nestings[i].base>>)

\* C23: ParseConfig[ServerConfig] returns the parsed configuration and a nil
\* error exactly when every variable parses and Environment is local, test
\* or production, compared case-sensitively; otherwise it returns the zero
\* configuration and an error. A variable that does not parse is reported
\* as "failed to parse config from environment" whatever Environment is; an
\* Environment outside the three as "config validation failed" in front of
\* the message of Validate.
C23_ParseThenValidate ==
    /\ parseResult # <<>> =>
         LET res == parseResult[1]
             parses == Unparsable(environ) = {}
             e == Lookup(environ, "ENVIRONMENT")
             valid == e \in {"local", "test", "production"}
         IN  /\ res.err = NoError <=> (parses /\ valid)
             /\ res.err = NoError => res.cfg = ParseAs(environ).cfg
             /\ res.err # NoError => res.cfg = ZeroConfig
             /\ ~parses =>
                  /\ Len(res.err) > 1
                  /\ res.err[1] = "failed to parse config from environment"
             /\ parses /\ ~valid =>
                  res.err = <<"config validation failed",
                              "invalid environment: " \o e
                              \o " (must be local, test or production)">>
             /\ res.err # NoError => res.err[1] = ParseConfig(Outcome(environ))[1]
    /\ \A e \in {"", "LOCAL", "Local", "staging"} :
          Validate([ZeroConfig EXCEPT !.Environment = e]) # NoError

C23_Witness ==
    /\ parseResult # <<>>
    /\ environ["ENVIRONMENT"] = "LOCAL"
    /\ environ["PORT"] = "+3000"
    /\ parseResult[1].cfg = ZeroConfig
    /\ parseResult[1].err[1] = "config validation failed"

C24_LastCallWins ==
    IF loggerCalls = <<>> THEN defaultLogger = GoDefaultLogger
    ELSE
      LET last == loggerCalls[Len(loggerCalls)] IN
      /\ defaultLogger.id = <<0, Len(loggerCalls)>>
      /\ Enabled(defaultLogger, "DEBUG") <=> last.VerboseMode
      /\ Enabled(defaultLogger, "INFO")
      /\ defaultLogger.format = IF last.Environment = "local" THEN "text" ELSE "json"

C24_Witness ==
    /\ Len(loggerCalls) = 2
    /\ loggerCalls[1].Environment = "production"
    /\ loggerCalls[1].VerboseMode
    /\ loggerCalls[2].Environment = "test"
    /\ ~loggerCalls[2].VerboseMode
    /\ defaultLogger.format = "json"
    /\ ~Enabled(defaultLogger, "DEBUG")

\* C22: NewServerWithConfig is safe for concurrent use: under a valid
\* environment every one of the concurrent calls returns a server and a nil
\* error, and no call interferes with another on shared state: the process
\* default logger a call has installed stays the default logger until that
\* call returns, so the "created server" record of a call goes through the
\* logger of that call.
C22_ConcurrentSafe ==
    \A c \in Callers :
        /\ callPc[c] = "done" =>
             /\ callResult[c][1].server # NilServer
             /\ callResult[c][1].err = NoError
             /\ usedLogger[c] = callLogger[c]
        /\ callPc[c] = "installed" => defaultLogger = callLogger[c]

\* Every call returns a server and a nil error whatever the interleaving.
C22_EveryCallReturnsServer ==
    \A c \in Callers :
        callPc[c] = "done" =>
            /\ callResult[c][1].server = HttpServer(BaseHandler, ParseAs(environ).cfg)
            /\ callResult[c][1].err = NoError

====
